---- MODULE Spec2Model ----
(***************************************************************************)
(* VibeNotes3: the notes routes (create / update / delete of notes and     *)
(* their attachments) over two stores that fail independently: the         *)
(* PostgreSQL tables notes / note_attachments and the files under          *)
(* public/.  Every `await pool.query(...)` of a handler is one step of     *)
(* the request; the synchronous code that follows it (up to the next       *)
(* query) belongs to the same step.                                        *)
(*                                                                         *)
(* Strings are sequences of tokens (a token is a one-character string      *)
(* such as "." or "/", or an alphanumeric word such as "png").  A path     *)
(* string is kept split at "/": [abs |-> it starts with "/", segs |-> its  *)
(* segments].  POSIX path semantics (path.posix) are modelled.             *)
(***************************************************************************)
EXTENDS Integers, Sequences, FiniteSets, TLC

\* ------------------------------------------------------------------ bounds
MaxNotes == 1       \* note ids handed out by the notes SERIAL
MaxAtts  == 2       \* attachment ids handed out by the note_attachments SERIAL
MaxFiles == 2       \* file parts per request
MaxClock == 1       \* milliseconds that pass (Date.now / CURRENT_TIMESTAMP)
MaxFaults == 2      \* pool.query / fs.unlinkSync calls that throw for an outside reason

\* ------------------------------------------------------------ small inputs
Users  == {1, 2}    \* users.id of the registered users
NoUser == 0         \* a session without userId
Slots  == {1, 2}    \* requests that can be in flight together
Rands  == {0, 1}    \* values of Math.round(Math.random() * 1E9)

\* ------------------------------------------------------------------ strings
DOT    == "."
SLASH  == "/"
BSLASH == "\\"
DOTDOT == <<DOT, DOT>>

AlnumTokens == {"a", "b", "png", "pdf", "exe", "T", "C", "U", "etc", "passwd"}

Last(s) == s[Len(s)]

Front(s) == SubSeq(s, 1, Len(s) - 1)

StartsWith(s, p) == Len(p) <= Len(s) /\ SubSeq(s, 1, Len(p)) = p

\* index of the last occurrence of token c in s, 0 when there is none
LastIndexOf(s, c) ==
    LET I == {i \in 1..Len(s) : s[i] = c}
    IN  IF I = {} THEN 0 ELSE CHOOSE i \in I : \A j \in I : j <= i

\* the part of a string after its last "/"
LastSegment(s) == SubSeq(s, LastIndexOf(s, SLASH) + 1, Len(s))

\* path.extname
extname(p) ==
    LET s == LastSegment(p)
        d == LastIndexOf(s, DOT)
    IN  IF d = 0 \/ d = 1 \/ s = DOTDOT THEN <<>> ELSE SubSeq(s, d, Len(s))

\* path.basename(p, ext)
basename(p, ext) ==
    LET s == LastSegment(p)
    IN  IF /\ ext /= <<>>
           /\ Len(ext) < Len(s)
           /\ SubSeq(s, Len(s) - Len(ext) + 1, Len(s)) = ext
        THEN SubSeq(s, 1, Len(s) - Len(ext))
        ELSE s

\* a sanitization that drops the characters it does not allow
sanitizeBaseName_strip(b) == SelectSeq(b, LAMBDA t : t \in AlnumTokens)

\* baseName.replace(/[^a-zA-Z0-9]/g, '_')
sanitizeBaseName(b) ==
    [i \in 1..Len(b) |-> IF b[i] \in AlnumTokens THEN b[i] ELSE "_"]

\* a storage that keeps the name the client sent
filename_original(originalname, ts, rnd) == originalname

\* storage.filename: `note-${Date.now()}-${random}-${sanitizedBaseName}${ext}`
filename(originalname, ts, rnd) ==
    LET ext == extname(originalname)
        baseName == basename(originalname, ext)
    IN  <<"note", "-", ToString(ts), "-", ToString(rnd), "-">>
            \o sanitizeBaseName(baseName) \o ext

\* -------------------------------------------------------------------- paths
RECURSIVE NormSegs(_, _, _)
\* collapse "." and ".." segments, left to right (normalizeString)
NormSegs(segs, acc, abs) ==
    IF segs = <<>> THEN acc
    ELSE LET s == Head(segs)
             rest == Tail(segs)
         IN  IF s = <<>> \/ s = <<DOT>> THEN NormSegs(rest, acc, abs)
             ELSE IF s = DOTDOT
                  THEN IF acc /= <<>> /\ Last(acc) /= DOTDOT
                       THEN NormSegs(rest, Front(acc), abs)
                       ELSE IF abs THEN NormSegs(rest, acc, abs)
                            ELSE NormSegs(rest, Append(acc, s), abs)
                  ELSE NormSegs(rest, Append(acc, s), abs)

\* path.normalize
normalize(p) == [abs |-> p.abs, segs |-> NormSegs(p.segs, <<>>, p.abs)]

RECURSIVE StripSegs(_)
\* what /^(\.\.(\/|\\|$))+/ removes from the front of a relative path
StripSegs(segs) ==
    IF segs = <<>> THEN segs
    ELSE LET s == Head(segs)
         IN  IF s = DOTDOT THEN StripSegs(Tail(segs))
             ELSE IF StartsWith(s, <<DOT, DOT, BSLASH>>)
                  THEN IF Len(s) = 3 THEN Tail(segs)
                       ELSE StripSegs(<<SubSeq(s, 4, Len(s))>> \o Tail(segs))
                  ELSE segs

\* path.normalize(file_path).replace(/^(\.\.(\/|\\|$))+/, '')
sanitizePath(file_path) ==
    LET n == normalize(file_path)
    IN  IF n.abs THEN n ELSE [abs |-> FALSE, segs |-> StripSegs(n.segs)]

\* path.join(dir, p) for an absolute dir: concatenate, then normalize
join(dir, p) == NormSegs(dir \o p.segs, <<>>, TRUE)

RECURSIVE PathStr(_)
\* an absolute path, split into segments, as the string it is
PathStr(segs) ==
    IF segs = <<>> THEN <<>>
    ELSE <<SLASH>> \o Head(segs) \o PathStr(Tail(segs))

dirname       == << <<"app">>, <<"routes">> >>
publicDir     == join(dirname, [abs |-> FALSE, segs |-> <<DOTDOT, <<"public">> >>])
attachmentsDir == join(dirname,
                    [abs |-> FALSE, segs |-> <<DOTDOT, <<"public">>, <<"attachments">> >>])
uploadsDir    == publicDir \o << <<"uploads">> >>

\* the directories of the machine the paths of the model can name
Dirs == { <<>>, << <<"app">> >>, dirname, publicDir, attachmentsDir, uploadsDir,
          << <<"etc">> >> }

\* files that exist before the first request: /etc/passwd and the pages
\* the server sends from public/
IndexHtml == publicDir \o << <<"index", DOT, "html">> >>
EtcPasswd == << <<"etc">>, <<"passwd">> >>
SystemFiles == {IndexHtml, EtcPasswd}

RECURSIVE split(_)
\* the pieces of a string between its "/"
split(s) ==
    LET i == LastIndexOf(s, SLASH)
    IN  IF i = 0 THEN <<s>>
        ELSE Append(split(SubSeq(s, 1, i - 1)), SubSeq(s, i + 1, Len(s)))

\* a path string as the file system reads it
parsePath(s) ==
    IF s /= <<>> /\ Head(s) = SLASH
    THEN [abs |-> TRUE, segs |-> Tail(split(s))]
    ELSE [abs |-> FALSE, segs |-> split(s)]

\* `/attachments/${file.filename}`
storedPath(fname) == parsePath(<<SLASH, "attachments", SLASH>> \o fname)

InAttachmentsDir(p) ==
    Len(p) > Len(attachmentsDir) /\ SubSeq(p, 1, Len(attachmentsDir)) = attachmentsDir

\* ------------------------------------------------------------- request data
WS == " "

RECURSIVE TrimLeft(_)
TrimLeft(s) == IF s /= <<>> /\ Head(s) = WS THEN TrimLeft(Tail(s)) ELSE s

RECURSIVE TrimRight(_)
TrimRight(s) == IF s /= <<>> /\ Last(s) = WS THEN TrimRight(Front(s)) ELSE s

\* String.prototype.trim
trim(s) == TrimRight(TrimLeft(s))

MaxTitleLen   == 255
MaxContentLen == 1000000

\* words that stand for long runs of letters: of MaxTitleLen and MaxTitleLen + 1
\* letters, and of MaxContentLen and MaxContentLen + 1 letters
TitleMax    == "T{255}"
TitleOver   == "T{256}"
ContentMax  == "C{1000000}"
ContentOver == "C{1000001}"

MinUsernameLen == 3
MaxUsernameLen == 255
MinPasswordLen == 6
MaxPasswordLen == 128

\* words of MaxUsernameLen + 1 and of MaxPasswordLen + 1 letters
UsernameOver == "u{256}"
PasswordOver == "p{129}"

MaxDescriptionLen == 1000

\* a word of MaxDescriptionLen + 1 letters
DescriptionOver == "D{1001}"

\* the characters of a token
charsOf(t) ==
    CASE t = TitleMax    -> MaxTitleLen
      [] t = TitleOver   -> MaxTitleLen + 1
      [] t = ContentMax  -> MaxContentLen
      [] t = ContentOver -> MaxContentLen + 1
      [] t = UsernameOver -> MaxUsernameLen + 1
      [] t = PasswordOver -> MaxPasswordLen + 1
      [] t = DescriptionOver -> MaxDescriptionLen + 1
      [] t \in {"png", "pdf", "exe"} -> 3
      [] OTHER -> 1

RECURSIVE length(_)
\* String.prototype.length
length(s) == IF s = <<>> THEN 0 ELSE charsOf(Head(s)) + length(Tail(s))
MaxUploadFiles == 10
MaxFileSize == 50 * 1024 * 1024

\* req.body of a create or update; <<>> is a field that is missing or ''
Bodies ==
    { [title |-> <<WS, "T">>, content |-> <<"C">>, is_public |-> "str:true"],
      [title |-> <<"U">>,     content |-> <<"C">>, is_public |-> "undefined"],
      [title |-> <<>>,        content |-> <<WS>>,  is_public |-> "undefined"] }

NoBody == [title |-> <<>>, content |-> <<>>, is_public |-> "undefined"]

\* a test for any truthy value
isPublicOf_truthy(is_public) == is_public \notin {"undefined", "bool:false", "str:"}

\* is_public === 'true' || is_public === true
isPublicOf(is_public) == is_public \in {"str:true", "bool:true"}

\* the file parts a client sends: (filename, declared Content-Type, bytes)
FileParts ==
    { [fieldname |-> "attachments", complete |-> TRUE,
       originalname |-> <<"a", DOT, "png">>, mimetype |-> "image/png", size |-> 1],
      [fieldname |-> "attachments", complete |-> TRUE,
       originalname |-> <<"a", DOT, "exe">>, mimetype |-> "application/octet-stream",
       size |-> 1] }

PartLists == UNION {[1..n -> FileParts] : n \in 0..MaxFiles}

allowedMimeTypes ==
    { "image/jpeg", "image/jpg", "image/png", "image/gif", "image/webp",
      "application/pdf", "text/plain", "application/msword",
      "application/vnd.openxmlformats-officedocument.wordprocessingml.document",
      "application/vnd.ms-excel",
      "application/vnd.openxmlformats-officedocument.spreadsheetml.sheet" }

allowedExtensionWords ==
    {"jpg", "jpeg", "png", "gif", "webp", "pdf", "txt", "doc", "docx", "xls", "xlsx"}

\* /\.(jpg|jpeg|...|xlsx)$/i tested on an extname (upper-case words are not enumerated)
allowedExtensions(e) == Len(e) = 2 /\ e[1] = DOT /\ e[2] \in allowedExtensionWords

\* a filter that is content with one of the two
fileFilter_either(part) ==
    \/ part.mimetype \in allowedMimeTypes
    \/ allowedExtensions(extname(part.originalname))

\* upload.fileFilter: both the extension and the declared MIME type must be listed
fileFilter(part) ==
    /\ part.mimetype \in allowedMimeTypes
    /\ allowedExtensions(extname(part.originalname))

\* the file object multer's diskStorage leaves in req.files for an accepted part
storedFile(part, ts, rnd) ==
    LET fn == filename(part.originalname, ts, rnd)
    IN  [originalname |-> part.originalname, mimetype |-> part.mimetype,
         filename |-> fn, path |-> join(attachmentsDir, parsePath(fn))]

\* -------------------------------------------------------------------- state
\* session cookies of the clients
SessionIds == {1, 2}

\* users.avatar_path IS NULL
NoPath == [abs |-> FALSE, segs |-> <<>>]

\* names and passwords, letter by letter
Alice  == <<"a", "l", "i", "c", "e">>
Bob    == <<"b", "o", "b">>
Carol  == <<"c", "a", "r", "o", "l">>
Secret == <<"s", "e", "c", "r", "e", "t">>
Hunter == <<"h", "u", "n", "t", "e", "r">>

\* bcrypt.hash(password, saltRounds): a value bcrypt.compare matches with
\* that password only
hash(password) == [hashOf |-> password]

\* req.body without a description
NoDescription == [type |-> "undefined", text |-> <<>>]

\* no row of users
NoRow ==
    [id |-> 0, username |-> <<>>, password_hash |-> hash(<<>>), description |-> <<>>,
     avatar_path |-> NoPath]

\* the rows of the registered users
RegisteredUsers ==
    { [id |-> 1, username |-> Alice, password_hash |-> hash(Secret), description |-> <<>>,
       avatar_path |-> NoPath],
      [id |-> 2, username |-> Bob,   password_hash |-> hash(Secret), description |-> <<>>,
       avatar_path |-> NoPath] }

\* no session holds a userId
NoSessions == [s \in SessionIds |-> NoUser]

VARIABLES
    now,         \* the clock: Date.now() and CURRENT_TIMESTAMP
    notes,       \* the rows of table notes
    atts,        \* the rows of table note_attachments
    nextNoteId,  \* the notes SERIAL
    nextAttId,   \* the note_attachments SERIAL
    disk,        \* the files that exist (absolute paths)
    req,         \* per slot, the request it handles and how far it got
    faults,      \* the calls that have thrown for an outside reason so far
    active,      \* the slots that take requests
    users,       \* the rows of table users
    nextUserId,  \* the users SERIAL
    sessions     \* per session cookie, the userId the session holds

vars == <<now, notes, atts, nextNoteId, nextAttId, disk, req, faults, active, users, nextUserId, sessions>>

\* response bodies: { error: msg }, { message: msg, ... }, the body of
\* GET /:id, { note, attachments, is_owner }, and the body of a list, { notes }
ErrorJson(msg) ==
    [error |-> msg, message |-> "", note |-> {}, attachments |-> {}, is_owner |-> FALSE,
     notes |-> <<>>]

MessageJson(msg) ==
    [error |-> "", message |-> msg, note |-> {}, attachments |-> {}, is_owner |-> FALSE,
     notes |-> <<>>]

NoJson == ErrorJson("")

IdleReq ==
    [ pc |-> "idle", kind |-> "none", user |-> NoUser, body |-> NoBody,
      parts |-> <<>>, files |-> <<>>, noteId |-> 0, attId |-> 0, idx |-> 0,
      targetUserId |-> NoUser, \* parseInt(req.params.userId) of a public list
      session |-> 0,           \* the session cookie of an auth or profile request
      username |-> <<>>, password |-> <<>>,  \* req.body of a register or login
      found |-> NoRow,         \* result.rows[0] of the login SELECT
      description |-> NoDescription,  \* req.body.description of a profile update
      avatar |-> <<>>,         \* req.file.filename of a profile update, if any
      avatarPath |-> NoPath,   \* avatarPath of a profile update
      status |-> 0,
      json |-> NoJson,         \* the body res.json(...) is given
      \* history of the request, read by the properties only
      queryFailed |-> FALSE,   \* a pool.query of the request threw
      unlinkFailed |-> FALSE,  \* an fs.unlinkSync of the request threw
      fsops |-> {},            \* paths a delete gave to fs.existsSync / fs.unlinkSync
      nfiles |-> 0,            \* the files multer stored for the request
      notesBefore |-> 0,       \* the rows of notes when the request arrived
      attsBefore |-> {},       \* note_attachments when the request arrived
      diskBefore |-> {} ]      \* the files that existed when the request arrived

Init ==
    /\ now = 0
    /\ notes = {}
    /\ atts = {}
    /\ nextNoteId = 1
    /\ nextAttId = 1
    /\ disk = SystemFiles
    /\ req = [r \in Slots |-> IdleReq]
    /\ faults = 0
    /\ active = {1}
    /\ users = RegisteredUsers
    /\ nextUserId = Cardinality(RegisteredUsers) + 1
    /\ sessions = NoSessions

existsSync(p) == p \in disk \/ p \in Dirs

CanStart(r) == r \in active /\ req[r].pc \in {"idle", "done"}

\* the request with the body it is about to answer
Err(rq, msg) == [rq EXCEPT !.json = ErrorJson(msg)]
Msg(rq, msg) == [rq EXCEPT !.json = MessageJson(msg)]

\* res.status(s).json(...): the request has returned; what it held (req.body,
\* req.files, ...) is gone with it
Respond(rq, s) ==
    [IdleReq EXCEPT !.pc = "done", !.status = s, !.json = rq.json,
                    !.kind = rq.kind, !.noteId = rq.noteId,
                    !.queryFailed = rq.queryFailed, !.unlinkFailed = rq.unlinkFailed,
                    !.fsops = rq.fsops, !.nfiles = rq.nfiles]

\* the clock advances by a millisecond
Tick ==
    /\ now < MaxClock
    /\ now' = now + 1
    /\ UNCHANGED <<notes, atts, nextNoteId, nextAttId, disk, req, faults, active, users, nextUserId, sessions>>

\* ------------------------------------------------------- shared handler code
\* a request as it arrives
NewReq(kind, u, body, parts, noteId, attId) ==
    [IdleReq EXCEPT !.kind = kind, !.user = u, !.body = body, !.parts = parts,
                    !.noteId = noteId, !.attId = attId,
                    !.notesBefore = Cardinality(notes),
                    !.attsBefore = atts, !.diskBefore = disk]

\* a check that lets every session through
requireAuth_always(rq) == TRUE

\* requireAuth: without session.userId the request ends with 401
requireAuth(rq) == rq.user /= NoUser

\* a validation without the two length limits
validate_noLimits(body) ==
    IF body.title = <<>> \/ body.content = <<>> THEN "Title and content are required"
    ELSE IF length(trim(body.title)) = 0 THEN "Title cannot be empty"
    ELSE IF length(trim(body.content)) = 0 THEN "Content cannot be empty"
    ELSE "ok"

\* the title/content checks of router.post('/') and router.put('/:id'):
\* "ok", or the error the handler answers 400 with
validate(body) ==
    IF body.title = <<>> \/ body.content = <<>> THEN "Title and content are required"
    ELSE IF length(trim(body.title)) = 0 THEN "Title cannot be empty"
    ELSE IF length(trim(body.title)) > MaxTitleLen THEN "Title must be 255 characters or less"
    ELSE IF length(trim(body.content)) = 0 THEN "Content cannot be empty"
    ELSE IF length(trim(body.content)) > MaxContentLen THEN "Content is too long (maximum 1MB)"
    ELSE "ok"

\* a clean-up that stops after the first file
cleanupFiles_firstOnly(files, failed) ==
    {files[i].path : i \in {j \in DOMAIN files : j = 1 /\ j \notin failed /\ files[j].path \in disk}}

\* cleanupFiles(files): the files it removes, when fs.unlinkSync throws (and
\* is caught) for the files at the indexes in failed
cleanupFiles(files, failed) ==
    {files[i].path : i \in {j \in DOMAIN files : j \notin failed /\ files[j].path \in disk}}

\* a call may throw for an outside reason while the fault budget lasts
MayFail(k) == faults + k <= MaxFaults

\* cleanupFiles(req.files), then the response with status s; thrown counts
\* the calls that threw in this step before the clean-up
CleanupAndRespond(r, rq, s, thrown) ==
    \E failed \in SUBSET {i \in DOMAIN rq.files : rq.files[i].path \in disk} :
        LET gone == cleanupFiles(rq.files, failed)
        IN  /\ MayFail(thrown + Cardinality(failed))
            /\ faults' = faults + thrown + Cardinality(failed)
            /\ disk' = disk \ gone
            /\ req' = [req EXCEPT ![r] =
                  Respond([rq EXCEPT !.unlinkFailed = @ \/ failed /= {}], s)]

\* the catch block of create and update: clean up, answer 500
CatchQueryError(r, thrown) ==
    CleanupAndRespond(r, [Err(req[r], "Internal server error") EXCEPT !.queryFailed = TRUE],
                      500, thrown)

\* the form field upload.array('attachments', 10) takes files from
UploadField == "attachments"

\* multer refuses part i: it is past limits.files, it came in another form
\* field, fileFilter calls back with an error, its bytes exceed
\* limits.fileSize, or the multipart body ends inside it
partRejected(parts, i) ==
    \/ i > MaxUploadFiles
    \/ parts[i].fieldname /= UploadField
    \/ ~fileFilter(parts[i])
    \/ parts[i].size > MaxFileSize
    \/ ~parts[i].complete

\* the first part multer refuses, 0 when it accepts them all
firstRejected(parts) ==
    IF \E i \in DOMAIN parts : partRejected(parts, i)
    THEN CHOOSE i \in DOMAIN parts :
            partRejected(parts, i) /\ \A j \in 1..(i - 1) : ~partRejected(parts, j)
    ELSE 0

\* the error handleMulterUpload answers 400 with when part k was refused
\* 'File upload error: ' + err.message for the MulterError of a file in an
\* unexpected field, whose message is the library's 'Unexpected field'
MulterErrorEcho == "File upload error: Unexpected field"

\* err.message of the error the multipart parser raises for a body that ends
\* inside a part
ParserErrorEcho == "Unexpected end of form"

\* the error handleMulterUpload answers 400 with when part k was refused
uploadError(parts, k) ==
    IF k > MaxUploadFiles THEN "Too many files. Maximum is 10 files."
    ELSE IF parts[k].fieldname /= UploadField THEN MulterErrorEcho
    ELSE IF ~fileFilter(parts[k])
    THEN "File type not allowed. Only images, PDFs, text files, and office documents are permitted."
    ELSE IF parts[k].size > MaxFileSize THEN "File size too large. Maximum size is 50MB."
    ELSE ParserErrorEcho

\* the parts multer had given to the disk storage when it refused part k: the
\* ones before k, and k itself when it was cut off at the size limit or by
\* the end of the body
storedBefore(parts, k) ==
    IF k <= MaxUploadFiles /\ parts[k].fieldname = UploadField /\ fileFilter(parts[k])
    THEN 1..k ELSE 1..(k - 1)

\* an upload that leaves what it stored
removeUploadedFiles_none(written) == disk \cup written

\* the files left on disk after multer has removed the ones in written
\* (it unlinks every file it stored when the upload ends in an error)
removeUploadedFiles(written) == disk \ written

\* requireAuth, then handleMulterUpload(upload.array('attachments', 10)):
\* multer stores every accepted part under attachmentsDir (over a file of the
\* same name, if there is one) before the handler runs; when a part is refused
\* it removes what it stored and the wrapper answers 400. rnds holds the
\* outcomes of Math.random for the parts.
UploadWith(r, rq, rnds) ==
    LET n == Len(rq.parts)
        k == firstRejected(rq.parts)
    IN  IF ~requireAuth(rq)
        THEN /\ req' = [req EXCEPT ![r] = Respond(Err(rq, "Authentication required"), 401)]
             /\ disk' = disk
        ELSE \E rnd \in rnds :
               LET files == [i \in 1..n |-> storedFile(rq.parts[i], now, rnd[i])]
               IN  IF k /= 0
                   THEN /\ disk' = removeUploadedFiles(
                                     {files[i].path : i \in storedBefore(rq.parts, k)})
                        /\ req' = [req EXCEPT ![r] =
                                     Respond(Err(rq, uploadError(rq.parts, k)), 400)]
                   ELSE /\ disk' = disk \cup {files[i].path : i \in 1..n}
                        /\ req' = [req EXCEPT ![r] =
                                     [rq EXCEPT !.pc = "validate", !.files = files,
                                                !.nfiles = n]]

\* Math.random for each of n parts
Rnds(n) == [1..n -> Rands]

Upload(r, rq) == UploadWith(r, rq, Rnds(Len(rq.parts)))

\* the row INSERT INTO note_attachments writes for req.files[idx]
attachmentRow(id, noteId, file) ==
    [ id |-> id, note_id |-> noteId, original_filename |-> file.originalname,
      stored_filename |-> file.filename, file_path |-> storedPath(file.filename),
      mime_type |-> file.mimetype ]

\* one turn of `for (const file of files)`: the INSERT of the next file's row
\* (the foreign key needs the note), then the response after the last one
\* (cap bounds the ids the SERIAL hands out)
InsertAttachmentUpTo(r, okStatus, cap) ==
    LET rq == req[r]
        file == rq.files[rq.idx]
        noteExists == \E n \in notes : n.id = rq.noteId
    IN  \E ok \in BOOLEAN :
          IF ok /\ noteExists
          THEN /\ nextAttId <= cap
               /\ atts' = atts \cup {attachmentRow(nextAttId, rq.noteId, file)}
               /\ nextAttId' = nextAttId + 1
               /\ req' = [req EXCEPT ![r] =
                     LET q == [rq EXCEPT !.idx = @ + 1]
                     IN  IF rq.idx = Len(rq.files)
                         THEN Respond(Msg(q, IF okStatus = 201
                                             THEN "Note created successfully"
                                             ELSE "Note updated successfully"), okStatus)
                         ELSE q]
               /\ UNCHANGED <<disk, faults>>
          ELSE /\ ok = ~noteExists
               /\ CatchQueryError(r, IF noteExists THEN 1 ELSE 0)
               /\ UNCHANGED <<atts, nextAttId>>

InsertAttachment(r, okStatus) == InsertAttachmentUpTo(r, okStatus, MaxAtts)

\* ------------------------------------------------------- POST /api/notes
\* a create arrives with one of the part lists in lists; rnd[n] holds the
\* outcomes of Math.random for a list of n parts
PostNoteWith(r, lists, rnd, cap) ==
    /\ CanStart(r)
    /\ nextNoteId <= MaxNotes
    /\ \E u \in Users \cup {NoUser}, body \in Bodies, parts \in lists :
         /\ nextAttId + Len(parts) <= cap + 1
         /\ UploadWith(r, NewReq("create", u, body, parts, 0, 0), rnd[Len(parts)])
    /\ UNCHANGED <<now, notes, atts, nextNoteId, nextAttId, faults, active, users, nextUserId, sessions>>

PostNote(r) == PostNoteWith(r, PartLists, [n \in 0..MaxFiles |-> Rnds(n)], MaxAtts)

CreateValidate(r) ==
    LET rq == req[r]
    IN  /\ rq.pc = "validate" /\ rq.kind = "create"
        /\ IF validate(rq.body) /= "ok"
           THEN CleanupAndRespond(r, Err(rq, validate(rq.body)), 400, 0)
           ELSE /\ req' = [req EXCEPT ![r].pc = "insert_note"]
                /\ UNCHANGED <<disk, faults>>
        /\ UNCHANGED <<now, notes, atts, nextNoteId, nextAttId, active, users, nextUserId, sessions>>

\* a row that is given to the first user
noteRow_firstUser(id, rq) ==
    [ id |-> id, user_id |-> 1,
      title |-> trim(rq.body.title), content |-> trim(rq.body.content),
      is_public |-> isPublicOf(rq.body.is_public), updated_at |-> now ]

\* the row INSERT INTO notes (user_id, title, content, is_public) writes
noteRow(id, rq) ==
    [ id |-> id, user_id |-> rq.user,
      title |-> trim(rq.body.title), content |-> trim(rq.body.content),
      is_public |-> isPublicOf(rq.body.is_public), updated_at |-> now ]

\* INSERT INTO notes ... RETURNING id (cap bounds the ids the SERIAL hands out)
CreateInsertNoteUpTo(r, cap) ==
    LET rq == req[r]
    IN  /\ rq.pc = "insert_note"
        /\ \E ok \in BOOLEAN :
             IF ok
             THEN /\ nextNoteId <= cap
                  /\ notes' = notes \cup {noteRow(nextNoteId, rq)}
                  /\ nextNoteId' = nextNoteId + 1
                  /\ req' = [req EXCEPT ![r] =
                        LET q == [rq EXCEPT !.noteId = nextNoteId, !.idx = 1]
                        IN  IF rq.files = <<>>
                            THEN Respond(Msg(q, "Note created successfully"), 201)
                            ELSE [q EXCEPT !.pc = "insert_att"]]
                  /\ UNCHANGED <<disk, faults>>
             ELSE /\ CatchQueryError(r, 1)
                  /\ UNCHANGED <<notes, nextNoteId>>
        /\ UNCHANGED <<now, atts, nextAttId, active, users, nextUserId, sessions>>

CreateInsertNote(r) == CreateInsertNoteUpTo(r, MaxNotes)

CreateInsertAttachment(r) ==
    /\ req[r].pc = "insert_att" /\ req[r].kind = "create"
    /\ InsertAttachment(r, 201)
    /\ UNCHANGED <<now, notes, nextNoteId, active, users, nextUserId, sessions>>

\* ---------------------------------------------------- PUT /api/notes/:id
NoteIds == 1..MaxNotes
AttIds  == 1..MaxAtts

\* SELECT id FROM notes WHERE id = $1 AND user_id = $2
ownedNote(noteId, userId) == {n \in notes : n.id = noteId /\ n.user_id = userId}

\* a check that lets every id through
notFound_never(rows) == FALSE

\* `result.rows.length === 0`: the handler answers 404
notFound(rows) == rows = {}

\* an update arrives with one of the part lists in lists
PutNoteWith(r, lists, rnd, cap) ==
    /\ CanStart(r)
    /\ \E u \in Users \cup {NoUser}, id \in NoteIds, body \in Bodies, parts \in lists :
         /\ nextAttId + Len(parts) <= cap + 1
         /\ UploadWith(r, NewReq("update", u, body, parts, id, 0), rnd[Len(parts)])
    /\ UNCHANGED <<now, notes, atts, nextNoteId, nextAttId, faults, active, users, nextUserId, sessions>>

PutNote(r) == PutNoteWith(r, PartLists, [n \in 0..MaxFiles |-> Rnds(n)], MaxAtts)

UpdateValidate(r) ==
    LET rq == req[r]
    IN  /\ rq.pc = "validate" /\ rq.kind = "update"
        /\ IF validate(rq.body) /= "ok"
           THEN CleanupAndRespond(r, Err(rq, validate(rq.body)), 400, 0)
           ELSE /\ req' = [req EXCEPT ![r].pc = "check"]
                /\ UNCHANGED <<disk, faults>>
        /\ UNCHANGED <<now, notes, atts, nextNoteId, nextAttId, active, users, nextUserId, sessions>>

\* the ownership SELECT of the update; no row: clean up, 404
UpdateCheck(r) ==
    LET rq == req[r]
    IN  /\ rq.pc = "check" /\ rq.kind = "update"
        /\ \E ok \in BOOLEAN :
             IF ~ok THEN CatchQueryError(r, 1)
             ELSE IF notFound(ownedNote(rq.noteId, rq.user))
             THEN CleanupAndRespond(r, Err(rq, "Note not found"), 404, 0)
             ELSE /\ req' = [req EXCEPT ![r].pc = "update"]
                  /\ UNCHANGED <<disk, faults>>
        /\ UNCHANGED <<now, notes, atts, nextNoteId, nextAttId, active, users, nextUserId, sessions>>

\* UPDATE notes SET title, content, is_public, updated_at = CURRENT_TIMESTAMP
\* WHERE id = $4 AND user_id = $5
UpdateNote(r) ==
    LET rq == req[r]
    IN  /\ rq.pc = "update"
        /\ \E ok \in BOOLEAN :
             IF ok
             THEN /\ notes' =
                       { IF n \in ownedNote(rq.noteId, rq.user)
                         THEN [n EXCEPT !.title = trim(rq.body.title),
                                        !.content = trim(rq.body.content),
                                        !.is_public = isPublicOf(rq.body.is_public),
                                        !.updated_at = now]
                         ELSE n : n \in notes }
                  /\ req' = [req EXCEPT ![r] =
                        IF rq.files = <<>>
                        THEN Respond(Msg(rq, "Note updated successfully"), 200)
                        ELSE [rq EXCEPT !.pc = "insert_att", !.idx = 1]]
                  /\ UNCHANGED <<disk, faults>>
             ELSE /\ CatchQueryError(r, 1)
                  /\ UNCHANGED <<notes>>
        /\ UNCHANGED <<now, atts, nextNoteId, nextAttId, active, users, nextUserId, sessions>>

UpdateInsertAttachment(r) ==
    /\ req[r].pc = "insert_att" /\ req[r].kind = "update"
    /\ InsertAttachment(r, 200)
    /\ UNCHANGED <<now, notes, nextNoteId, active, users, nextUserId, sessions>>

\* ------------------------------------------------- DELETE /api/notes/:id
\* path.join(__dirname, '..', 'public', sanitizedPath)
filePathOf(file_path) == join(publicDir, sanitizePath(file_path))

\* resolvedPath.startsWith(resolvedPublicDir)
withinPublicDir(p) == StartsWith(PathStr(p), PathStr(publicDir))

\* the catch block of the two delete handlers: answer 500
DeleteError(r, rq, thrown) ==
    /\ MayFail(thrown)
    /\ faults' = faults + thrown
    /\ req' = [req EXCEPT ![r] = Respond(Err(rq, "Internal server error"), 500)]

\* the unlink code both deletes run on the rows their SELECT returned: the
\* rows in done are handled without a throw; fs.unlinkSync throws for the row
\* in stop (at most one), which ends the handler in its catch block
UnlinkRows(r, rq, rows, nextPc) ==
    \E done \in SUBSET rows :
      \E stop \in SUBSET (rows \ done) :
        LET removed == {filePathOf(a.file_path) : a \in
                          {b \in done : /\ withinPublicDir(filePathOf(b.file_path))
                                        /\ filePathOf(b.file_path) \in disk}}
            touched == {filePathOf(a.file_path) : a \in
                          {b \in done \cup stop : withinPublicDir(filePathOf(b.file_path))}}
            q == [rq EXCEPT !.fsops = touched]
        IN  /\ Cardinality(stop) <= 1
            /\ stop = {} => done = rows
            \* unlinking a directory always throws
            /\ \A a \in done : ~( /\ withinPublicDir(filePathOf(a.file_path))
                                  /\ filePathOf(a.file_path) \in Dirs )
            /\ disk' = disk \ removed
            /\ IF stop = {}
               THEN /\ req' = [req EXCEPT ![r] = [q EXCEPT !.pc = nextPc]]
                    /\ UNCHANGED faults
               ELSE \E a \in stop :
                      LET t == filePathOf(a.file_path)
                      IN  /\ withinPublicDir(t)
                          /\ t \in (disk \ removed) \cup Dirs
                          /\ DeleteError(r, [q EXCEPT !.unlinkFailed = TRUE],
                                         IF t \in Dirs THEN 0 ELSE 1)

DeleteNote(r) ==
    /\ CanStart(r)
    /\ \E u \in Users \cup {NoUser}, id \in NoteIds :
         LET rq == NewReq("delete", u, NoBody, <<>>, id, 0)
         IN  req' = [req EXCEPT ![r] =
                IF requireAuth(rq) THEN [rq EXCEPT !.pc = "check"] ELSE Respond(Err(rq, "Authentication required"), 401)]
    /\ UNCHANGED <<now, notes, atts, nextNoteId, nextAttId, disk, faults, active, users, nextUserId, sessions>>

\* the ownership SELECT of the delete; no row: 404
DeleteCheck(r) ==
    LET rq == req[r]
    IN  /\ rq.pc = "check" /\ rq.kind = "delete"
        /\ \E ok \in BOOLEAN :
             IF ~ok THEN DeleteError(r, [rq EXCEPT !.queryFailed = TRUE], 1)
             ELSE /\ req' = [req EXCEPT ![r] =
                        IF notFound(ownedNote(rq.noteId, rq.user))
                        THEN Respond(Err(rq, "Note not found"), 404)
                        ELSE [rq EXCEPT !.pc = "select_atts"]]
                  /\ UNCHANGED faults
        /\ UNCHANGED <<now, notes, atts, nextNoteId, nextAttId, disk, active, users, nextUserId, sessions>>

\* SELECT file_path FROM note_attachments WHERE note_id = $1, then the
\* forEach that unlinks the files
DeleteSelectUnlink(r) ==
    LET rq == req[r]
    IN  /\ rq.pc = "select_atts"
        /\ \E ok \in BOOLEAN :
             IF ~ok
             THEN /\ DeleteError(r, [rq EXCEPT !.queryFailed = TRUE], 1)
                  /\ UNCHANGED disk
             ELSE UnlinkRows(r, rq, {a \in atts : a.note_id = rq.noteId}, "delete")
        /\ UNCHANGED <<now, notes, atts, nextNoteId, nextAttId, active, users, nextUserId, sessions>>

\* a schema whose attachment rows outlive their note
cascade_none(gone) == atts

\* note_attachments.note_id REFERENCES notes(id) ON DELETE CASCADE: the rows
\* of note_attachments left when the notes in gone are deleted
cascade(gone) == {a \in atts : \A n \in gone : a.note_id /= n.id}

\* DELETE FROM notes WHERE id = $1 AND user_id = $2
DeleteRows(r) ==
    LET rq == req[r]
        gone == ownedNote(rq.noteId, rq.user)
    IN  /\ rq.pc = "delete"
        /\ \E ok \in BOOLEAN :
             IF ~ok
             THEN /\ DeleteError(r, [rq EXCEPT !.queryFailed = TRUE], 1)
                  /\ UNCHANGED <<notes, atts>>
             ELSE /\ notes' = notes \ gone
                  /\ atts' = cascade(gone)
                  /\ req' = [req EXCEPT ![r] = Respond(Msg(rq, "Note deleted successfully"), 200)]
                  /\ UNCHANGED faults
        /\ UNCHANGED <<now, nextNoteId, nextAttId, disk, active, users, nextUserId, sessions>>

\* ------------------------- DELETE /api/notes/:id/attachments/:attachmentId
\* a SELECT that does not ask for the note of the attachment
attachmentOf_anyNote(attId, noteId) == {a \in atts : a.id = attId}

\* ... FROM note_attachments WHERE id = $1 AND note_id = $2
attachmentOf(attId, noteId) == {a \in atts : a.id = attId /\ a.note_id = noteId}

\* an attachment delete arrives for one of the ids in noteIds and attIds
DeleteAttachmentOf(r, noteIds, attIds) ==
    /\ CanStart(r)
    /\ \E u \in Users \cup {NoUser}, id \in noteIds, aid \in attIds :
         LET rq == NewReq("delete_att", u, NoBody, <<>>, id, aid)
         IN  req' = [req EXCEPT ![r] =
                IF requireAuth(rq) THEN [rq EXCEPT !.pc = "check"] ELSE Respond(Err(rq, "Authentication required"), 401)]
    /\ UNCHANGED <<now, notes, atts, nextNoteId, nextAttId, disk, faults, active, users, nextUserId, sessions>>

DeleteAttachment(r) == DeleteAttachmentOf(r, NoteIds, AttIds)

\* "Verify note belongs to user"; no row: 404
DelAttCheck(r) ==
    LET rq == req[r]
    IN  /\ rq.pc = "check" /\ rq.kind = "delete_att"
        /\ \E ok \in BOOLEAN :
             IF ~ok THEN DeleteError(r, [rq EXCEPT !.queryFailed = TRUE], 1)
             ELSE /\ req' = [req EXCEPT ![r] =
                        IF notFound(ownedNote(rq.noteId, rq.user))
                        THEN Respond(Err(rq, "Note not found"), 404)
                        ELSE [rq EXCEPT !.pc = "select_att"]]
                  /\ UNCHANGED faults
        /\ UNCHANGED <<now, notes, atts, nextNoteId, nextAttId, disk, active, users, nextUserId, sessions>>

\* SELECT file_path FROM note_attachments WHERE id = $1 AND note_id = $2
\* (no row: 404), then the unlink of the file
DelAttSelectUnlink(r) ==
    LET rq == req[r]
        rows == attachmentOf(rq.attId, rq.noteId)
    IN  /\ rq.pc = "select_att"
        /\ \E ok \in BOOLEAN :
             IF ~ok
             THEN /\ DeleteError(r, [rq EXCEPT !.queryFailed = TRUE], 1)
                  /\ UNCHANGED disk
             ELSE IF notFound(rows)
             THEN /\ req' = [req EXCEPT ![r] =
                        Respond(Err(rq, "Attachment not found"), 404)]
                  /\ UNCHANGED <<disk, faults>>
             ELSE UnlinkRows(r, rq, rows, "delete_row")
        /\ UNCHANGED <<now, notes, atts, nextNoteId, nextAttId, active, users, nextUserId, sessions>>

\* DELETE FROM note_attachments WHERE id = $1 AND note_id = $2
DelAttRow(r) ==
    LET rq == req[r]
    IN  /\ rq.pc = "delete_row"
        /\ \E ok \in BOOLEAN :
             IF ~ok
             THEN /\ DeleteError(r, [rq EXCEPT !.queryFailed = TRUE], 1)
                  /\ UNCHANGED atts
             ELSE /\ atts' = atts \ attachmentOf(rq.attId, rq.noteId)
                  /\ req' = [req EXCEPT ![r] = Respond(Msg(rq, "Attachment deleted successfully"), 200)]
                  /\ UNCHANGED faults
        /\ UNCHANGED <<now, notes, nextNoteId, nextAttId, disk, active, users, nextUserId, sessions>>

\* ------------------------------------------------------------ specification
Next ==
    \/ Tick
    \/ \E r \in Slots :
         \/ PostNote(r) \/ CreateValidate(r)
         \/ CreateInsertNote(r) \/ CreateInsertAttachment(r)
         \/ PutNote(r) \/ UpdateValidate(r) \/ UpdateCheck(r)
         \/ UpdateNote(r) \/ UpdateInsertAttachment(r)
         \/ DeleteNote(r) \/ DeleteCheck(r) \/ DeleteSelectUnlink(r) \/ DeleteRows(r)
         \/ DeleteAttachment(r) \/ DelAttCheck(r) \/ DelAttSelectUnlink(r) \/ DelAttRow(r)

Spec == Init /\ [][Next]_vars

\* ------------------------------------------- a corrupted attachment record
\* file_path is a VARCHAR(500): values a row can hold that no handler wrote
AvatarFile == uploadsDir \o << <<"avatar", "-", "1", DOT, "png">> >>

CorruptPaths ==
    { [abs |-> FALSE, segs |-> <<DOTDOT, DOTDOT, <<"etc">>, <<"passwd">> >>],
      [abs |-> TRUE,  segs |-> << <<"attachments">>, DOTDOT, DOTDOT, DOTDOT,
                                  <<"etc">>, <<"passwd">> >>],
      [abs |-> TRUE,  segs |-> << <<"etc">>, <<"passwd">> >>],
      [abs |-> TRUE,  segs |-> << <<"uploads">>, <<"avatar", "-", "1", DOT, "png">> >>],
      [abs |-> FALSE, segs |-> << <<DOT, DOT, BSLASH, "index", DOT, "html">> >>],
      [abs |-> TRUE,  segs |-> << <<"attachments">> >>] }

\* the store holds an avatar a profile update put under public/uploads; no
\* call throws for an outside reason (the fault budget is spent)
InitCorrupt ==
    /\ now = 0
    /\ notes = {}
    /\ atts = {}
    /\ nextNoteId = 1
    /\ nextAttId = 1
    /\ disk = SystemFiles \cup {AvatarFile}
    /\ req = [r \in Slots |-> IdleReq]
    /\ faults = MaxFaults
    /\ active = {1}
    /\ users = RegisteredUsers
    /\ nextUserId = Cardinality(RegisteredUsers) + 1
    /\ sessions = NoSessions

\* a write from outside the handlers changes the file_path of a row
CorruptRow ==
    /\ \A r \in active : req[r].pc \in {"idle", "done"}
    /\ \E a \in atts, p \in CorruptPaths :
         /\ a.file_path = storedPath(a.stored_filename)
         /\ atts' = (atts \ {a}) \cup {[a EXCEPT !.file_path = p]}
    /\ UNCHANGED <<now, notes, nextNoteId, nextAttId, disk, req, faults, active, users, nextUserId, sessions>>

NextCorrupt == Next \/ CorruptRow

SpecCorrupt == InitCorrupt /\ [][NextCorrupt]_vars

\* ---------------------------------------------------- GET /api/notes/:id
\* a SELECT that forgets who asks
visibleNote_anyone(noteId, userId) == {n \in notes : n.id = noteId}

\* SELECT ... FROM notes WHERE id = $1 AND (user_id = $2 OR is_public = true)
visibleNote(noteId, userId) ==
    {n \in notes : n.id = noteId /\ (n.user_id = userId \/ n.is_public)}

GetNote(r) ==
    /\ CanStart(r)
    /\ \E u \in Users \cup {NoUser}, id \in NoteIds :
         LET rq == NewReq("get", u, NoBody, <<>>, id, 0)
         IN  req' = [req EXCEPT ![r] =
                IF requireAuth(rq) THEN [rq EXCEPT !.pc = "get_note"]
                ELSE Respond(Err(rq, "Authentication required"), 401)]
    /\ UNCHANGED <<now, notes, atts, nextNoteId, nextAttId, disk, faults, active, users, nextUserId, sessions>>

\* the SELECT of the note (no row: 404); note and isOwner are kept for the body
GetSelectNote(r) ==
    LET rq == req[r]
        rows == visibleNote(rq.noteId, rq.user)
    IN  /\ rq.pc = "get_note"
        /\ \E ok \in BOOLEAN :
             IF ~ok THEN DeleteError(r, [rq EXCEPT !.queryFailed = TRUE], 1)
             ELSE /\ req' = [req EXCEPT ![r] =
                        IF notFound(rows) THEN Respond(Err(rq, "Note not found"), 404)
                        ELSE [rq EXCEPT !.pc = "get_atts", !.json.note = rows,
                                        !.json.is_owner =
                                            \A n \in rows : n.user_id = rq.user]]
                  /\ UNCHANGED faults
        /\ UNCHANGED <<now, notes, atts, nextNoteId, nextAttId, disk, active, users, nextUserId, sessions>>

\* SELECT ... FROM note_attachments WHERE note_id = $1, then the 200
GetSelectAttachments(r) ==
    LET rq == req[r]
    IN  /\ rq.pc = "get_atts"
        /\ \E ok \in BOOLEAN :
             IF ~ok THEN DeleteError(r, [rq EXCEPT !.queryFailed = TRUE], 1)
             ELSE /\ req' = [req EXCEPT ![r] =
                        Respond([rq EXCEPT !.json.attachments =
                                     {a \in atts : a.note_id = rq.noteId}], 200)]
                  /\ UNCHANGED faults
        /\ UNCHANGED <<now, notes, atts, nextNoteId, nextAttId, disk, active, users, nextUserId, sessions>>

\* the handlers with the read; no call throws for an outside reason
InitRead ==
    /\ now = 0
    /\ notes = {}
    /\ atts = {}
    /\ nextNoteId = 1
    /\ nextAttId = 1
    /\ disk = SystemFiles
    /\ req = [r \in Slots |-> IdleReq]
    /\ faults = MaxFaults
    /\ active = {1}
    /\ users = RegisteredUsers
    /\ nextUserId = Cardinality(RegisteredUsers) + 1
    /\ sessions = NoSessions

NextRead ==
    \/ Next
    \/ \E r \in Slots : GetNote(r) \/ GetSelectNote(r) \/ GetSelectAttachments(r)

SpecRead == InitRead /\ [][NextRead]_vars

\* --------------------------------------------------- uploads of many files
\* requests that carry as many parts as limits.files allows; the random
\* numbers of a request's parts differ
MaxBatchAtts == 11

PngPart == [fieldname |-> "attachments", complete |-> TRUE,
       originalname |-> <<"a", DOT, "png">>, mimetype |-> "image/png", size |-> 1]

BatchParts ==
    { PngPart,
      [fieldname |-> "attachments", complete |-> TRUE,
       originalname |-> <<"a", DOT, "exe">>, mimetype |-> "application/octet-stream",
       size |-> 1],
      [fieldname |-> "attachments", complete |-> TRUE,
       originalname |-> <<"a", DOT, "png">>, mimetype |-> "application/octet-stream",
       size |-> 1],
      [fieldname |-> "attachments", complete |-> TRUE,
       originalname |-> <<"a", DOT, "exe">>, mimetype |-> "image/png", size |-> 1],
      [fieldname |-> "attachments", complete |-> TRUE,
       originalname |-> <<"a", DOT, "png">>, mimetype |-> "image/png",
       size |-> MaxFileSize + 1] }

BatchLists == {[i \in 1..n |-> PngPart] : n \in {0, 1, MaxUploadFiles}}

BatchRnds(n) == {[i \in 1..n |-> i]}

InitBatch ==
    /\ now = 0
    /\ notes = {}
    /\ atts = {}
    /\ nextNoteId = 1
    /\ nextAttId = 1
    /\ disk = SystemFiles
    /\ req = [r \in Slots |-> IdleReq]
    /\ faults = MaxFaults
    /\ active = {1}
    /\ users = RegisteredUsers
    /\ nextUserId = Cardinality(RegisteredUsers) + 1
    /\ sessions = NoSessions

PostBatch(r) ==
    PostNoteWith(r, BatchLists, [n \in 0..MaxUploadFiles |-> BatchRnds(n)], MaxBatchAtts)

PutBatch(r) ==
    PutNoteWith(r, BatchLists, [n \in 0..MaxUploadFiles |-> BatchRnds(n)], MaxBatchAtts)

CreateInsertBatch(r) ==
    /\ req[r].pc = "insert_att" /\ req[r].kind = "create"
    /\ InsertAttachmentUpTo(r, 201, MaxBatchAtts)
    /\ UNCHANGED <<now, notes, nextNoteId, active, users, nextUserId, sessions>>

UpdateInsertBatch(r) ==
    /\ req[r].pc = "insert_att" /\ req[r].kind = "update"
    /\ InsertAttachmentUpTo(r, 200, MaxBatchAtts)
    /\ UNCHANGED <<now, notes, nextNoteId, active, users, nextUserId, sessions>>

NextBatch ==
    \E r \in Slots :
        \/ PostBatch(r) \/ CreateValidate(r) \/ CreateInsertNote(r) \/ CreateInsertBatch(r)
        \/ PutBatch(r) \/ UpdateValidate(r) \/ UpdateCheck(r) \/ UpdateNote(r)
        \/ UpdateInsertBatch(r)

SpecBatch == InitBatch /\ [][NextBatch]_vars

\* ------------------------------------------------- one request, any upload
\* a request has been received and its multipart body is about to be read:
\* lists of up to MaxFiles parts of every kind, and of limits.files and
\* limits.files + 1 allowed parts
UploadLists ==
    UNION {[1..n -> BatchParts] : n \in 0..MaxFiles}
    \cup {[i \in 1..n |-> PngPart] : n \in {MaxUploadFiles, MaxUploadFiles + 1}}

\* the note a POST by user 1 without files leaves
FirstNote ==
    [ id |-> 1, user_id |-> 1, title |-> <<"U">>, content |-> <<"C">>,
      is_public |-> FALSE, updated_at |-> 0 ]

InitUpload ==
    /\ now = 0
    /\ atts = {}
    /\ nextAttId = 1
    /\ disk = SystemFiles
    /\ faults = MaxFaults
    /\ active = {1}
    /\ users = RegisteredUsers
    /\ nextUserId = Cardinality(RegisteredUsers) + 1
    /\ sessions = NoSessions
    /\ \E kind \in {"create", "update"} :
         /\ notes = IF kind = "create" THEN {} ELSE {FirstNote}
         /\ nextNoteId = Cardinality(notes) + 1
         /\ \E u \in Users \cup {NoUser}, body \in Bodies, parts \in UploadLists :
              req = [r \in Slots |->
                       IF r \in active
                       THEN [NewReq(kind, u, body, parts, IF kind = "create" THEN 0 ELSE 1, 0)
                               EXCEPT !.pc = "upload", !.notesBefore = Cardinality(notes),
                                      !.attsBefore = {}, !.diskBefore = SystemFiles]
                       ELSE IdleReq]

\* requireAuth and the upload middleware run on the request
RunUpload(r) ==
    /\ req[r].pc = "upload"
    /\ UploadWith(r, [req[r] EXCEPT !.pc = "idle"], BatchRnds(Len(req[r].parts)))
    /\ UNCHANGED <<now, notes, atts, nextNoteId, nextAttId, faults, active, users, nextUserId, sessions>>

NextUpload ==
    \E r \in Slots :
        \/ RunUpload(r)
        \/ CreateValidate(r) \/ CreateInsertNote(r) \/ CreateInsertBatch(r)
        \/ UpdateValidate(r) \/ UpdateCheck(r) \/ UpdateNote(r) \/ UpdateInsertBatch(r)

SpecUpload == InitUpload /\ [][NextUpload]_vars

\* ------------------------------------------- one request, any form content
\* titles and contents at the limits of the validation
FormBodies ==
    Bodies \cup
    { [title |-> <<WS, WS>>,  content |-> <<"C">>, is_public |-> "undefined"],
      [title |-> <<"T">>,     content |-> <<WS>>,  is_public |-> "undefined"],
      [title |-> <<WS, TitleMax, WS>>, content |-> <<ContentMax, WS>>,
       is_public |-> "undefined"],
      [title |-> <<TitleOver>>, content |-> <<"C">>, is_public |-> "undefined"],
      [title |-> <<"T">>, content |-> <<ContentOver>>, is_public |-> "undefined"] }

\* file names with path characters in them
FormNames ==
    { <<"a", DOT, "png">>,
      <<"a", WS, "b", DOT, "png">>,
      <<DOT, DOT, SLASH, DOT, DOT, SLASH, "etc", SLASH, "passwd", DOT, "png">>,
      <<"a", SLASH, DOT, DOT, SLASH, "b", DOT, "png">>,
      <<DOT, DOT, BSLASH, "a", DOT, "png">>,
      <<DOT, DOT, DOT, "png">>,
      <<"a", DOT, "b", DOT, "png">>,
      <<SLASH, "etc", SLASH, "a", "-", "b", DOT, "png">> }

\* allowed parts with these names, a part in another form field and a part
\* the body ends in
FormParts ==
    { [PngPart EXCEPT !.originalname = nm] : nm \in FormNames }
    \cup { [PngPart EXCEPT !.fieldname = "file"], [PngPart EXCEPT !.complete = FALSE] }

FormLists == UNION {[1..n -> FormParts] : n \in 0..1} \cup {<<PngPart, PngPart>>}

InitForm ==
    /\ now = 0
    /\ atts = {}
    /\ nextAttId = 1
    /\ disk = SystemFiles
    /\ faults = MaxFaults
    /\ active = {1}
    /\ users = RegisteredUsers
    /\ nextUserId = Cardinality(RegisteredUsers) + 1
    /\ sessions = NoSessions
    /\ \E kind \in {"create", "update"} :
         /\ notes = IF kind = "create" THEN {} ELSE {FirstNote}
         /\ nextNoteId = Cardinality(notes) + 1
         /\ \E u \in {1, NoUser}, body \in FormBodies, parts \in FormLists :
              req = [r \in Slots |->
                       IF r \in active
                       THEN [NewReq(kind, u, body, parts, IF kind = "create" THEN 0 ELSE 1, 0)
                               EXCEPT !.pc = "upload", !.notesBefore = Cardinality(notes),
                                      !.attsBefore = {}, !.diskBefore = SystemFiles]
                       ELSE IdleReq]

SpecForm == InitForm /\ [][NextUpload]_vars

\* ------------------------------------------------- two requests in flight
MaxPairNotes == 3   \* note ids handed out while two requests are in flight
MaxPairAtts  == 3   \* attachment ids handed out while two requests are in flight

\* the file of the attachment the first note has
FirstFile == storedFile([PngPart EXCEPT !.originalname = <<"b", DOT, "png">>], 0, 0)

FirstAttachment == attachmentRow(1, 1, FirstFile)

\* a body the validation accepts and one it refuses
PairBodies ==
    { [title |-> <<"T">>, content |-> <<"C">>, is_public |-> "undefined"],
      [title |-> <<"T">>, content |-> <<WS>>,  is_public |-> "undefined"] }

PairLists == {<<>>, <<PngPart>>}

\* requests of user 1 that have been received: creates and updates before
\* their multipart body is read, deletes after requireAuth
PairRequests ==
    { [NewReq("create", 1, body, parts, 0, 0) EXCEPT !.pc = "upload"] :
          body \in PairBodies, parts \in PairLists }
    \cup { [NewReq("update", 1, body, parts, 1, 0) EXCEPT !.pc = "upload"] :
          body \in PairBodies, parts \in PairLists }
    \cup { [NewReq("delete", 1, NoBody, <<>>, 1, 0) EXCEPT !.pc = "check"],
           [NewReq("delete_att", 1, NoBody, <<>>, 1, 1) EXCEPT !.pc = "check"] }

\* user 1 has a note with one attachment; two requests arrive together, and
\* at most one call throws for an outside reason
InitPair ==
    /\ now = 0
    /\ notes = {FirstNote}
    /\ atts = {FirstAttachment}
    /\ nextNoteId = 2
    /\ nextAttId = 2
    /\ disk = SystemFiles \cup {FirstFile.path}
    /\ faults = MaxFaults - 1
    /\ active = Slots
    /\ users = RegisteredUsers
    /\ nextUserId = Cardinality(RegisteredUsers) + 1
    /\ sessions = NoSessions
    /\ req \in [Slots -> PairRequests]

\* requireAuth and the upload middleware run on a received create or update
RunUploadPair(r) ==
    /\ req[r].pc = "upload"
    /\ UploadWith(r, [req[r] EXCEPT !.pc = "idle"], Rnds(Len(req[r].parts)))
    /\ UNCHANGED <<now, notes, atts, nextNoteId, nextAttId, faults, active, users, nextUserId, sessions>>

CreateInsertNotePair(r) == CreateInsertNoteUpTo(r, MaxPairNotes)

CreateInsertPair(r) ==
    /\ req[r].pc = "insert_att" /\ req[r].kind = "create"
    /\ InsertAttachmentUpTo(r, 201, MaxPairAtts)
    /\ UNCHANGED <<now, notes, nextNoteId, active, users, nextUserId, sessions>>

UpdateInsertPair(r) ==
    /\ req[r].pc = "insert_att" /\ req[r].kind = "update"
    /\ InsertAttachmentUpTo(r, 200, MaxPairAtts)
    /\ UNCHANGED <<now, notes, nextNoteId, active, users, nextUserId, sessions>>

NextPair ==
    \E r \in Slots :
        \/ RunUploadPair(r)
        \/ CreateValidate(r) \/ CreateInsertNotePair(r) \/ CreateInsertPair(r)
        \/ UpdateValidate(r) \/ UpdateCheck(r) \/ UpdateNote(r) \/ UpdateInsertPair(r)
        \/ DeleteCheck(r) \/ DeleteSelectUnlink(r) \/ DeleteRows(r)
        \/ DelAttCheck(r) \/ DelAttSelectUnlink(r) \/ DelAttRow(r)

SpecPair == InitPair /\ [][NextPair]_vars

\* ------------------------ GET /api/notes and GET /api/notes/user/:userId/public
MaxListTime == 2    \* the latest updated_at of a listed note

\* req.params.userId as the client wrote it
UserIdParams == { <<"1">>, <<"2">>, <<"3">>, <<"2", "x">>, <<"x">>, <<>> }

Digits == {"1", "2", "3"}

\* parseInt: the digits a string starts with (one digit here), or NaN
parseInt(p) ==
    IF p /= <<>> /\ Head(p) \in Digits
    THEN [nan |-> FALSE, value |-> CHOOSE d \in 1..3 : ToString(d) = Head(p)]
    ELSE [nan |-> TRUE, value |-> 0]

\* the columns both lists select: id, title, content, is_public, updated_at
listedRow(n) ==
    [id |-> n.id, title |-> n.title, content |-> n.content,
     is_public |-> n.is_public, updated_at |-> n.updated_at]

\* ORDER BY updated_at DESC: the orders the rows can come in (rows with equal
\* updated_at come in any order)
orderByUpdatedDesc(rows) ==
    { s \in [1..Cardinality(rows) -> rows] :
        /\ \A i, j \in DOMAIN s : i < j => s[i].updated_at >= s[j].updated_at
        /\ \A i, j \in DOMAIN s : i /= j => s[i] /= s[j] }

\* WHERE user_id = $1
ownNotes(userId) == {n \in notes : n.user_id = userId}

\* a WHERE clause without is_public = true
publicNotes_all(userId) == {n \in notes : n.user_id = userId}

\* WHERE user_id = $1 AND is_public = true
publicNotes(userId) == {n \in notes : n.user_id = userId /\ n.is_public}

ListNotes(r) ==
    /\ CanStart(r)
    /\ \E u \in Users \cup {NoUser} :
         LET rq == NewReq("list", u, NoBody, <<>>, 0, 0)
         IN  req' = [req EXCEPT ![r] =
                IF requireAuth(rq) THEN [rq EXCEPT !.pc = "list"]
                ELSE Respond(Err(rq, "Authentication required"), 401)]
    /\ UNCHANGED <<now, notes, atts, nextNoteId, nextAttId, disk, faults, active, users, nextUserId, sessions>>

\* the SELECT of the requester's notes, then res.json({ notes })
ListSelect(r) ==
    LET rq == req[r]
    IN  /\ rq.pc = "list"
        /\ \E ok \in BOOLEAN :
             IF ~ok THEN DeleteError(r, [rq EXCEPT !.queryFailed = TRUE], 1)
             ELSE /\ \E rows \in orderByUpdatedDesc({listedRow(n) : n \in ownNotes(rq.user)}) :
                       req' = [req EXCEPT ![r] = Respond([rq EXCEPT !.json.notes = rows], 200)]
                  /\ UNCHANGED faults
        /\ UNCHANGED <<now, notes, atts, nextNoteId, nextAttId, disk, active, users, nextUserId, sessions>>

\* requireAuth, parseInt(req.params.userId), 400 when it is NaN
ListPublic(r) ==
    /\ CanStart(r)
    /\ \E u \in Users \cup {NoUser}, p \in UserIdParams :
         LET rq == NewReq("list_public", u, NoBody, <<>>, 0, 0)
             id == parseInt(p)
         IN  req' = [req EXCEPT ![r] =
                IF ~requireAuth(rq) THEN Respond(Err(rq, "Authentication required"), 401)
                ELSE IF id.nan THEN Respond(Err(rq, "Invalid user ID"), 400)
                ELSE [rq EXCEPT !.pc = "list_public", !.targetUserId = id.value]]
    /\ UNCHANGED <<now, notes, atts, nextNoteId, nextAttId, disk, faults, active, users, nextUserId, sessions>>

\* the SELECT of the target user's public notes, then res.json({ notes })
ListPublicSelect(r) ==
    LET rq == req[r]
    IN  /\ rq.pc = "list_public"
        /\ \E ok \in BOOLEAN :
             IF ~ok THEN DeleteError(r, [rq EXCEPT !.queryFailed = TRUE], 1)
             ELSE /\ \E rows \in orderByUpdatedDesc(
                                   {listedRow(n) : n \in publicNotes(rq.targetUserId)}) :
                       req' = [req EXCEPT ![r] = Respond([rq EXCEPT !.json.notes = rows], 200)]
                  /\ UNCHANGED faults
        /\ UNCHANGED <<now, notes, atts, nextNoteId, nextAttId, disk, active, users, nextUserId, sessions>>

\* two notes of user 1 and one of user 2, each private or public and last
\* updated at any of the times
ListedStores ==
    { { [FirstNote EXCEPT !.is_public = pub[1], !.updated_at = at[1]],
        [FirstNote EXCEPT !.id = 2, !.title = <<"T">>, !.is_public = pub[2],
                          !.updated_at = at[2]],
        [FirstNote EXCEPT !.id = 3, !.user_id = 2, !.is_public = pub[3],
                          !.updated_at = at[3]] } :
      pub \in [1..3 -> BOOLEAN], at \in [1..3 -> 0..MaxListTime] }

InitList ==
    /\ now = MaxListTime
    /\ notes \in ListedStores
    /\ atts = {}
    /\ nextNoteId = 4
    /\ nextAttId = 1
    /\ disk = SystemFiles
    /\ req = [r \in Slots |-> IdleReq]
    /\ faults = MaxFaults - 1
    /\ active = {1}
    /\ users = RegisteredUsers
    /\ nextUserId = Cardinality(RegisteredUsers) + 1
    /\ sessions = NoSessions

NextList ==
    \E r \in Slots : ListNotes(r) \/ ListSelect(r) \/ ListPublic(r) \/ ListPublicSelect(r)

SpecList == InitList /\ [][NextList]_vars

\* ------------------------------------- attachment deletes over two notes
\* the file of the attachment the second note has
SecondFile == storedFile(PngPart, 0, 0)

\* note 1 of user 1 and note 2 of user 1 or 2, each with one attachment;
\* at most one call throws for an outside reason
InitTwoNotes ==
    /\ now = 0
    /\ \E owner \in Users :
         notes = {FirstNote, [FirstNote EXCEPT !.id = 2, !.user_id = owner]}
    /\ atts = {FirstAttachment, attachmentRow(2, 2, SecondFile)}
    /\ nextNoteId = 3
    /\ nextAttId = 3
    /\ disk = SystemFiles \cup {FirstFile.path, SecondFile.path}
    /\ req = [r \in Slots |-> IdleReq]
    /\ faults = MaxFaults - 1
    /\ active = {1}
    /\ users = RegisteredUsers
    /\ nextUserId = Cardinality(RegisteredUsers) + 1
    /\ sessions = NoSessions

DeleteAttachmentTwo(r) == DeleteAttachmentOf(r, 1..2, 1..2)

NextTwoNotes ==
    \E r \in Slots :
        DeleteAttachmentTwo(r) \/ DelAttCheck(r) \/ DelAttSelectUnlink(r) \/ DelAttRow(r)

SpecTwoNotes == InitTwoNotes /\ [][NextTwoNotes]_vars

\* --------------------------------------------- one request, any is_public
\* values of req.body.is_public: strings of a form, booleans of a JSON body,
\* or no field
PublicValues ==
    {"str:true", "bool:true", "undefined", "str:false", "bool:false", "str:TRUE", "str:1", "str:"}

\* a create on an empty store, or an update of a note that is private or
\* public, has been received
InitPublic ==
    /\ now = 0
    /\ atts = {}
    /\ nextAttId = 1
    /\ disk = SystemFiles
    /\ faults = MaxFaults
    /\ active = {1}
    /\ users = RegisteredUsers
    /\ nextUserId = Cardinality(RegisteredUsers) + 1
    /\ sessions = NoSessions
    /\ \E kind \in {"create", "update"}, pub \in BOOLEAN :
         /\ notes = IF kind = "create" THEN {} ELSE {[FirstNote EXCEPT !.is_public = pub]}
         /\ nextNoteId = Cardinality(notes) + 1
         /\ \E u \in {1, NoUser}, v \in PublicValues, parts \in PairLists :
              req = [r \in Slots |->
                       IF r \in active
                       THEN [NewReq(kind, u, [title |-> <<"T">>, content |-> <<"C">>,
                                              is_public |-> v],
                                    parts, IF kind = "create" THEN 0 ELSE 1, 0)
                               EXCEPT !.pc = "upload", !.notesBefore = Cardinality(notes),
                                      !.attsBefore = {}, !.diskBefore = SystemFiles]
                       ELSE IdleReq]

SpecPublic == InitPublic /\ [][NextUpload]_vars

\* ------------------------------------------------ every notes endpoint
\* the seven routes of the router, one request at a time, no call throwing
\* for an outside reason
NextAll ==
    \/ NextRead
    \/ NextList

SpecAll == InitRead /\ [][NextAll]_vars

\* ------------------------------------------------ POST /api/auth/register
\* req.body.username and req.body.password of a register or login
Usernames ==
    { <<WS>> \o Bob, Carol, <<"a", "b">>, <<"a", "-", "b">>, <<UsernameOver>>, <<>> }

Passwords == { Secret, Hunter, <<"p", "w">>, <<PasswordOver>>, <<>> }

\* the characters /^[a-zA-Z0-9_]+$/ allows (the digits and the underscore are
\* not enumerated apart from "_")
UsernameChars ==
    {"a", "b", "c", "e", "i", "l", "o", "r", "_", UsernameOver}

\* the checks of the register handler: "ok", or the error it answers 400 with
validateRegister(username, password) ==
    IF username = <<>> \/ password = <<>> THEN "Username and password are required"
    ELSE IF length(trim(username)) < MinUsernameLen
    THEN "Username must be at least 3 characters long"
    ELSE IF length(trim(username)) > MaxUsernameLen
    THEN "Username must be 255 characters or less"
    ELSE IF \E i \in DOMAIN trim(username) : trim(username)[i] \notin UsernameChars
    THEN "Username can only contain letters, numbers, and underscores"
    ELSE IF length(password) < MinPasswordLen
    THEN "Password must be at least 6 characters long"
    ELSE IF length(password) > MaxPasswordLen
    THEN "Password must be 128 characters or less"
    ELSE "ok"

\* SELECT ... FROM users WHERE username = $1
usersNamed(username) == {u \in users : u.username = username}

\* a column without the constraint
uniqueViolation_never(username) == FALSE

\* username VARCHAR(255) UNIQUE: an INSERT of a username a row has is refused
uniqueViolation(username) == usersNamed(username) /= {}

\* a registration arrives on a session; the checks before the first query
RegisterOf(r, names, passwords) ==
    /\ CanStart(r)
    /\ \E s \in SessionIds, username \in names, password \in passwords :
         LET rq == [NewReq("register", NoUser, NoBody, <<>>, 0, 0)
                      EXCEPT !.session = s, !.username = trim(username),
                             !.password = password]
             v == validateRegister(username, password)
         IN  req' = [req EXCEPT ![r] =
                IF v /= "ok" THEN Respond(Err(rq, v), 400)
                ELSE [rq EXCEPT !.pc = "reg_check"]]
    /\ UNCHANGED <<now, notes, atts, nextNoteId, nextAttId, disk, faults, active, users,
                   nextUserId, sessions>>

Register(r) == RegisterOf(r, Usernames, Passwords)

\* "Check if username already exists"; a row: 400
RegCheck(r) ==
    LET rq == req[r]
    IN  /\ rq.pc = "reg_check"
        /\ \E ok \in BOOLEAN :
             IF ~ok THEN DeleteError(r, [rq EXCEPT !.queryFailed = TRUE], 1)
             ELSE /\ req' = [req EXCEPT ![r] =
                        IF usersNamed(rq.username) /= {}
                        THEN Respond(Err(rq, "Username already exists"), 400)
                        ELSE [rq EXCEPT !.pc = "reg_hash"]]
                  /\ UNCHANGED faults
        /\ UNCHANGED <<now, notes, atts, nextNoteId, nextAttId, disk, active, users,
                       nextUserId, sessions>>

\* await bcrypt.hash(password, saltRounds)
RegHash(r) ==
    /\ req[r].pc = "reg_hash"
    /\ req' = [req EXCEPT ![r].pc = "reg_insert"]
    /\ UNCHANGED <<now, notes, atts, nextNoteId, nextAttId, disk, faults, active, users,
                   nextUserId, sessions>>

\* INSERT INTO users ... RETURNING id, username, then the session is set and
\* 201 is sent; a refused INSERT ends in the catch block
RegInsert(r) ==
    LET rq == req[r]
    IN  /\ rq.pc = "reg_insert"
        /\ \E ok \in BOOLEAN :
             IF ok /\ ~uniqueViolation(rq.username)
             THEN /\ users' = users \cup
                        { [id |-> nextUserId, username |-> rq.username,
                           password_hash |-> hash(rq.password), description |-> <<>>,
                           avatar_path |-> NoPath] }
                  /\ nextUserId' = nextUserId + 1
                  /\ sessions' = [sessions EXCEPT ![rq.session] = nextUserId]
                  /\ req' = [req EXCEPT ![r] =
                        Respond(Msg([rq EXCEPT !.user = nextUserId],
                                    "User registered successfully"), 201)]
                  /\ UNCHANGED faults
             ELSE /\ ok = uniqueViolation(rq.username)
                  /\ DeleteError(r, [rq EXCEPT !.queryFailed = TRUE],
                                 IF uniqueViolation(rq.username) THEN 0 ELSE 1)
                  /\ UNCHANGED <<users, nextUserId, sessions>>
        /\ UNCHANGED <<now, notes, atts, nextNoteId, nextAttId, disk, active>>

\* two clients register at the same time; no call throws for an outside reason
InitRegister ==
    /\ now = 0
    /\ notes = {}
    /\ atts = {}
    /\ nextNoteId = 1
    /\ nextAttId = 1
    /\ disk = SystemFiles
    /\ req = [r \in Slots |-> IdleReq]
    /\ faults = MaxFaults
    /\ active = Slots
    /\ users = RegisteredUsers
    /\ nextUserId = Cardinality(RegisteredUsers) + 1
    /\ sessions = NoSessions

NextRegister ==
    \E r \in Slots : Register(r) \/ RegCheck(r) \/ RegHash(r) \/ RegInsert(r)

SpecRegister == InitRegister /\ [][NextRegister]_vars

\* --------------------------------------- POST /api/auth/login and /logout
\* a session store in which destroy removes nothing
destroy_keep(s) == sessions

\* req.session.destroy(): the store without session s
destroy(s) == [sessions EXCEPT ![s] = NoUser]

\* bcrypt.compare(password, user.password_hash)
compare(password, password_hash) == password_hash = hash(password)

\* a login arrives on a session; 400 without a username or a password
LoginOf(r, names, passwords) ==
    /\ CanStart(r)
    /\ \E s \in SessionIds, username \in names, password \in passwords :
         LET rq == [NewReq("login", NoUser, NoBody, <<>>, 0, 0)
                      EXCEPT !.session = s, !.username = trim(username),
                             !.password = password]
         IN  req' = [req EXCEPT ![r] =
                IF username = <<>> \/ password = <<>>
                THEN Respond(Err(rq, "Username and password are required"), 400)
                ELSE [rq EXCEPT !.pc = "login_find"]]
    /\ UNCHANGED <<now, notes, atts, nextNoteId, nextAttId, disk, faults, active, users,
                   nextUserId, sessions>>

Login(r) == LoginOf(r, Usernames, Passwords)

\* "Find user": no row answers 401
LoginFind(r) ==
    LET rq == req[r]
    IN  /\ rq.pc = "login_find"
        /\ \E ok \in BOOLEAN :
             IF ~ok THEN DeleteError(r, [rq EXCEPT !.queryFailed = TRUE], 1)
             ELSE /\ \/ /\ usersNamed(rq.username) = {}
                        /\ req' = [req EXCEPT ![r] =
                              Respond(Err(rq, "Invalid username or password"), 401)]
                     \/ \E user \in usersNamed(rq.username) :
                          req' = [req EXCEPT ![r] =
                             [rq EXCEPT !.pc = "login_compare", !.found = user]]
                  /\ UNCHANGED faults
        /\ UNCHANGED <<now, notes, atts, nextNoteId, nextAttId, disk, active, users,
                       nextUserId, sessions>>

\* "Verify password", then the session is set and the login answered
LoginCompare(r) ==
    LET rq == req[r]
    IN  /\ rq.pc = "login_compare"
        /\ IF compare(rq.password, rq.found.password_hash)
           THEN /\ sessions' = [sessions EXCEPT ![rq.session] = rq.found.id]
                /\ req' = [req EXCEPT ![r] = Respond(Msg(rq, "Login successful"), 200)]
           ELSE /\ req' = [req EXCEPT ![r] =
                      Respond(Err(rq, "Invalid username or password"), 401)]
                /\ UNCHANGED sessions
        /\ UNCHANGED <<now, notes, atts, nextNoteId, nextAttId, disk, faults, active, users,
                       nextUserId>>

\* POST /logout: the session is destroyed (the memory store's destroy passes
\* no error to the callback); the answered request keeps whose session it was
Logout(r) ==
    /\ CanStart(r)
    /\ \E s \in SessionIds :
         LET rq == [NewReq("logout", sessions[s], NoBody, <<>>, 0, 0) EXCEPT !.session = s]
         IN  /\ sessions' = destroy(s)
             /\ req' = [req EXCEPT ![r] =
                   [Respond(Msg(rq, "Logout successful"), 200)
                      EXCEPT !.session = s, !.user = sessions[s]]]
    /\ UNCHANGED <<now, notes, atts, nextNoteId, nextAttId, disk, faults, active, users,
                   nextUserId>>

\* GET /api/notes on a session: req.session.userId is what the session holds
ListNotesOn(r) ==
    /\ CanStart(r)
    /\ \E s \in SessionIds :
         LET rq == [NewReq("list", sessions[s], NoBody, <<>>, 0, 0) EXCEPT !.session = s]
         IN  req' = [req EXCEPT ![r] =
                IF requireAuth(rq) THEN [rq EXCEPT !.pc = "list"]
                ELSE [Respond(Err(rq, "Authentication required"), 401)
                        EXCEPT !.session = s]]
    /\ UNCHANGED <<now, notes, atts, nextNoteId, nextAttId, disk, faults, active, users,
                   nextUserId, sessions>>

\* the names and passwords the clients of the session runs send
SessionNames     == { Alice, Carol, <<>> }
SessionPasswords == { Secret, Hunter }

\* two clients register, log in, log out and list their notes; one query may
\* throw for an outside reason
InitSession ==
    /\ now = 0
    /\ notes = {}
    /\ atts = {}
    /\ nextNoteId = 1
    /\ nextAttId = 1
    /\ disk = SystemFiles
    /\ req = [r \in Slots |-> IdleReq]
    /\ faults = MaxFaults - 1
    /\ active = Slots
    /\ users = RegisteredUsers
    /\ nextUserId = Cardinality(RegisteredUsers) + 1
    /\ sessions = NoSessions

NextSession ==
    \E r \in Slots :
       \/ RegisterOf(r, {Alice, Carol}, {Secret, <<"p", "w">>})
       \/ RegCheck(r) \/ RegHash(r) \/ RegInsert(r)
       \/ LoginOf(r, SessionNames, SessionPasswords)
       \/ LoginFind(r) \/ LoginCompare(r)
       \/ Logout(r)
       \/ ListNotesOn(r) \/ ListSelect(r)

SpecSession == InitSession /\ [][NextSession]_vars

\* ------------------------------------------------------ PUT /api/profile/me
\* req.body.description: absent, a text, a text over the limit, a number
Descriptions ==
    { NoDescription,
      [type |-> "string", text |-> <<"h", "i", WS>>],
      [type |-> "string", text |-> <<DescriptionOver>>],
      [type |-> "number", text |-> <<>>] }

\* the parts of the field avatar a client sends: none or one
AvatarUploads ==
    { <<>>,
      << [fieldname |-> "avatar", complete |-> TRUE,
          originalname |-> <<"a", DOT, "png">>, mimetype |-> "image/png", size |-> 1] >>,
      << [fieldname |-> "avatar", complete |-> TRUE,
          originalname |-> <<"a", DOT, "exe">>, mimetype |-> "application/octet-stream",
          size |-> 1] >> }

\* /jpeg|jpg|png|gif|webp/
allowedTypes == {"jpeg", "jpg", "png", "gif", "webp"}

\* upload.fileFilter: the pattern is found in the extension and in the type
avatarFilter(part) ==
    /\ \E i \in DOMAIN extname(part.originalname) :
          extname(part.originalname)[i] \in allowedTypes
    /\ part.mimetype \in {"image/jpeg", "image/png", "image/gif", "image/webp"}

\* storage.filename: `avatar-${userId}-${Date.now()}-${random}${ext}`
avatarFilename(userId, originalname, ts, rnd) ==
    <<"avatar", "-", ToString(userId), "-", ToString(ts), "-", ToString(rnd)>>
        \o extname(originalname)

\* the file multer stores under public/uploads
uploadedFile(fname) == join(uploadsDir, parsePath(fname))

\* `/uploads/${req.file.filename}`
uploadedPath(fname) == parsePath(<<SLASH, "uploads", SLASH>> \o fname)

\* requireAuth and upload.single('avatar') run on a received profile update;
\* an error of the upload goes to the default error handler
ProfileUpdate(r) ==
    /\ CanStart(r)
    /\ \E s \in SessionIds, d \in Descriptions, parts \in AvatarUploads, rnd \in Rands :
         LET rq == [NewReq("profile", sessions[s], NoBody, parts, 0, 0)
                      EXCEPT !.session = s, !.description = d]
             fname == avatarFilename(rq.user, parts[1].originalname, now, rnd)
         IN  /\ d.type = "number" => parts = <<>>
             /\ IF ~requireAuth(rq)
                THEN /\ req' = [req EXCEPT ![r] =
                           Respond(Err(rq, "Authentication required"), 401)]
                     /\ UNCHANGED disk
                ELSE IF parts /= <<>> /\ ~avatarFilter(parts[1])
                THEN /\ req' = [req EXCEPT ![r] =
                           Respond(Err(rq, "Only image files are allowed"), 500)]
                     /\ UNCHANGED disk
                ELSE IF parts /= <<>>
                THEN /\ disk' = disk \cup {uploadedFile(fname)}
                     /\ req' = [req EXCEPT ![r] =
                           [rq EXCEPT !.pc = "prof_select", !.avatar = fname, !.nfiles = 1]]
                ELSE /\ req' = [req EXCEPT ![r] = [rq EXCEPT !.pc = "prof_select"]]
                     /\ UNCHANGED disk
    /\ UNCHANGED <<now, notes, atts, nextNoteId, nextAttId, faults, active, users,
                   nextUserId, sessions>>

\* the checks on req.body.description: "ok", or the error answered with 400
validateDescription(d) ==
    IF d.type = "undefined" THEN "ok"
    ELSE IF d.type /= "string" THEN "Description must be a string"
    ELSE IF length(d.text) > MaxDescriptionLen
    THEN "Description must be 1000 characters or less"
    ELSE "ok"

\* "Get current avatar path"; with a new avatar the old one is deleted; then
\* the description is validated and the fields to update are collected
ProfSelect(r) ==
    LET rq == req[r]
        old == (CHOOSE u \in users : u.id = rq.user).avatar_path
        oldAvatarPath == filePathOf(old)
        unlinks == /\ rq.avatar /= <<>> /\ old /= NoPath
                   /\ withinPublicDir(oldAvatarPath) /\ existsSync(oldAvatarPath)
        avatarPath == IF rq.avatar /= <<>> THEN uploadedPath(rq.avatar) ELSE old
        v == validateDescription(rq.description)
    IN  /\ rq.pc = "prof_select"
        /\ \E ok \in BOOLEAN, unlinked \in BOOLEAN :
             IF ~ok
             THEN /\ unlinked
                  /\ DeleteError(r, [rq EXCEPT !.queryFailed = TRUE], 1)
                  /\ UNCHANGED disk
             ELSE IF unlinks /\ ~unlinked
             THEN /\ DeleteError(r, [rq EXCEPT !.unlinkFailed = TRUE], 1)
                  /\ UNCHANGED disk
             ELSE /\ unlinked
                  /\ disk' = IF unlinks THEN disk \ {oldAvatarPath} ELSE disk
                  /\ req' = [req EXCEPT ![r] =
                        IF v /= "ok" THEN Respond(Err(rq, v), 400)
                        ELSE IF rq.description.type = "undefined" /\ avatarPath = NoPath
                        THEN Respond(Err(rq, "No fields to update"), 400)
                        ELSE [rq EXCEPT !.pc = "prof_update", !.avatarPath = avatarPath]]
                  /\ UNCHANGED faults
        /\ UNCHANGED <<now, notes, atts, nextNoteId, nextAttId, active, users, nextUserId,
                       sessions>>

\* UPDATE users SET ... WHERE id = $n RETURNING ..., then the profile is sent
ProfUpdate(r) ==
    LET rq == req[r]
        row == CHOOSE u \in users : u.id = rq.user
        updated == [row EXCEPT
                      !.description = IF rq.description.type = "undefined" THEN @
                                      ELSE trim(rq.description.text),
                      !.avatar_path = IF rq.avatarPath = NoPath THEN @
                                      ELSE rq.avatarPath]
    IN  /\ rq.pc = "prof_update"
        /\ \E ok \in BOOLEAN :
             IF ~ok THEN /\ DeleteError(r, [rq EXCEPT !.queryFailed = TRUE], 1)
                         /\ UNCHANGED users
             ELSE /\ users' = (users \ {row}) \cup {updated}
                  /\ req' = [req EXCEPT ![r] =
                        Respond(Msg(rq, "Profile updated successfully"), 200)]
                  /\ UNCHANGED faults
        /\ UNCHANGED <<now, notes, atts, nextNoteId, nextAttId, disk, active, nextUserId,
                       sessions>>

\* the avatar user 1 uploaded before
FirstAvatar == avatarFilename(1, <<"a", DOT, "png">>, 0, 0)

\* user 1 is logged in on session 1 and has an avatar; one client sends
\* profile updates, and at most one call throws for an outside reason
InitProfile ==
    /\ now = 0
    /\ notes = {}
    /\ atts = {}
    /\ nextNoteId = 1
    /\ nextAttId = 1
    /\ disk = SystemFiles \cup {uploadedFile(FirstAvatar)}
    /\ req = [r \in Slots |-> IdleReq]
    /\ faults = MaxFaults - 1
    /\ active = {1}
    /\ users = {IF u.id = 1 THEN [u EXCEPT !.avatar_path = uploadedPath(FirstAvatar)] ELSE u :
                   u \in RegisteredUsers}
    /\ nextUserId = Cardinality(RegisteredUsers) + 1
    /\ sessions = [NoSessions EXCEPT ![1] = 1]

NextProfile ==
    \/ Tick
    \/ \E r \in Slots : ProfileUpdate(r) \/ ProfSelect(r) \/ ProfUpdate(r)

SpecProfile == InitProfile /\ [][NextProfile]_vars

\* =================================================================== claims
\* the files multer stored for a request
BlobsOf(rq) == {rq.files[i].path : i \in DOMAIN rq.files}

\* the step in which a create answers after its note INSERT or one of its
\* attachment INSERTs threw
CreateMetaFailure(r) ==
    /\ req[r].kind = "create" /\ req[r].pc \in {"insert_note", "insert_att"}
    /\ req'[r].pc = "done" /\ req'[r].queryFailed

\* the step in which an update answers after its UPDATE or one of its
\* attachment INSERTs threw
UpdateMetaFailure(r) ==
    /\ req[r].kind = "update" /\ req[r].pc \in {"update", "insert_att"}
    /\ req'[r].pc = "done" /\ req'[r].queryFailed

AttachmentBlobs == {p \in disk : InAttachmentsDir(p)}

\* C1: when a create fails at the note INSERT or at an attachment INSERT (and
\* nothing else goes wrong), the store holds, once the request has answered, no
\* note row, no attachment row and no blob of that request.
C1_NoNoteNoBlobs ==
    [][\A r \in Slots :
         (CreateMetaFailure(r) /\ ~req'[r].unlinkFailed)
         => /\ \A n \in notes' : n.id /= req'[r].noteId
            /\ \A a \in atts' : a.note_id /= req'[r].noteId
            /\ BlobsOf(req[r]) \cap disk' = {}]_vars

\* C2: when a create or an update fails at a metadata write (note INSERT /
\* UPDATE or an attachment INSERT) and that is the only call that throws, every
\* blob the request wrote is gone from the disk when the error response is sent.
C2_NoOrphanBlobs ==
    [][\A r \in Slots :
         ((CreateMetaFailure(r) \/ UpdateMetaFailure(r)) /\ ~req'[r].unlinkFailed)
         => BlobsOf(req[r]) \cap disk' = {}]_vars

\* a create that stored MaxFiles files failed at an attachment INSERT, and the
\* attachment directory is empty again
C2_Witness ==
    \E r \in Slots :
        /\ req[r].pc = "done" /\ req[r].kind = "create" /\ req[r].status = 500
        /\ req[r].queryFailed /\ ~req[r].unlinkFailed
        /\ req[r].nfiles = MaxFiles /\ req[r].noteId /= 0
        /\ AttachmentBlobs = {}

\* C3: whenever no request is in flight, every attachment row's stored path
\* names a file that exists.
C3_NoDanglingRow ==
    (\A r \in active : req[r].pc \in {"idle", "done"})
    => \A a \in atts : filePathOf(a.file_path) \in disk

\* C4: when a create answers 201 for N stored files, one note row was added,
\* the new note has N attachment rows, and these name N different files that
\* exist in the attachment directory.
C4_ExactlyNRowsAndBlobs ==
    [][\A r \in Slots :
         ( /\ req[r].kind = "create" /\ req[r].pc \in {"insert_note", "insert_att"}
           /\ req'[r].pc = "done" /\ req'[r].status = 201 )
         => LET id == req'[r].noteId
                R == {a \in atts' : a.note_id = id}
                B == {filePathOf(a.file_path) : a \in R}
                N == Len(req[r].files)
            IN  /\ Cardinality({n \in notes' : n.id = id}) = 1
                /\ Cardinality(notes') = req[r].notesBefore + 1
                /\ Cardinality(R) = N
                /\ Cardinality(B) = N
                /\ B \subseteq disk'
                /\ \A p \in B : InAttachmentsDir(p)]_vars

\* C5: when a note delete answers 200, the note row is gone, no attachment row
\* of the note is left, and no file that one of those rows named exists.
C5_DeleteRemovesAll ==
    [][\A r \in Slots :
         ( /\ req[r].kind = "delete" /\ req[r].pc = "delete"
           /\ req'[r].pc = "done" /\ req'[r].status = 200 )
         => LET id == req[r].noteId
                R == {a \in atts : a.note_id = id}
            IN  /\ \A n \in notes' : n.id /= id
                /\ \A a \in atts' : a.note_id /= id
                /\ \A a \in R : filePathOf(a.file_path) \notin disk']_vars

\* a delete of a note with attachments answered 200: the files it touched and
\* the note are gone
C5_Witness ==
    \E r \in Slots :
        /\ req[r].pc = "done" /\ req[r].kind = "delete" /\ req[r].status = 200
        /\ req[r].fsops /= {} /\ req[r].fsops \cap disk = {}
        /\ \A n \in notes : n.id /= req[r].noteId

\* C6: in a note delete no file is unlinked while an attachment row that names
\* it still exists (metadata first, blobs afterwards).
C6_MetadataBeforeBlobs ==
    [][\A r \in Slots :
         (req[r].kind = "delete" /\ req[r].pc = "select_atts")
         => \A a \in atts' : filePathOf(a.file_path) \notin (disk \ disk')]_vars

\* C7: a delete (of a note or of an attachment) in which an unlink threw has
\* still removed its metadata rows and answers 200.
C7_UnlinkFailureTolerated ==
    \A r \in Slots :
        (req[r].pc = "done" /\ req[r].kind \in {"delete", "delete_att"}
            /\ req[r].unlinkFailed)
        => /\ req[r].status = 200
           /\ req[r].kind = "delete" => \A n \in notes : n.id /= req[r].noteId

\* the note id was handed out and its row is gone: a delete has removed it
AlreadyDeleted(id) == id < nextNoteId /\ \A n \in notes : n.id /= id

\* C8: a delete of a note id that an earlier delete has removed ends at its
\* ownership check: it changes no row and no file, and answers 404 (500 when
\* the SELECT itself throws).
C8_SecondDeleteNotFound ==
    [][\A r \in Slots :
         ( /\ req[r].kind = "delete" /\ req[r].pc \notin {"idle", "done"}
           /\ AlreadyDeleted(req[r].noteId) /\ req'[r] /= req[r] )
         => /\ req'[r].pc = "done"
            /\ req'[r].status = IF req'[r].queryFailed THEN 500 ELSE 404
            /\ UNCHANGED <<notes, atts, disk>>]_vars

\* the second delete of a removed note id has answered 404
C8_Witness ==
    \E r \in Slots :
        /\ req[r].pc = "done" /\ req[r].kind = "delete" /\ req[r].status = 404
        /\ AlreadyDeleted(req[r].noteId)

\* C9: whatever file_path a row holds, the unlink step of a note delete or of
\* an attachment delete removes no file outside the attachment root.
C9_UnlinkOnlyInAttachmentRoot ==
    [][\A r \in Slots :
         ( /\ req[r].kind \in {"delete", "delete_att"}
           /\ req[r].pc \in {"select_atts", "select_att"} )
         => \A p \in disk \ disk' : InAttachmentsDir(p)]_vars

\* stored paths that contain '../../etc/passwd'
TraversalPaths ==
    { [abs |-> FALSE, segs |-> <<DOTDOT, DOTDOT, <<"etc">>, <<"passwd">> >>],
      [abs |-> TRUE,  segs |-> << <<"attachments">>, DOTDOT, DOTDOT, DOTDOT,
                                  <<"etc">>, <<"passwd">> >>] }

\* the row an attachment delete is about holds a traversal path
MeetsTraversal(r) ==
    /\ req[r].kind = "delete_att"
    /\ \E a \in atts : /\ a.id = req[r].attId /\ a.note_id = req[r].noteId
                       /\ a.file_path \in TraversalPaths

\* C10: an attachment delete that meets a row whose path contains
\* '../../etc/passwd' rejects the path: it makes no filesystem call (no
\* existence test, no unlink) and answers 404.
C10_RejectedAsNotFound ==
    [][\A r \in Slots :
         (MeetsTraversal(r) /\ req[r].pc = "select_att" /\ req'[r] /= req[r])
         => /\ req'[r].fsops = {}
            /\ req'[r].pc = "done" /\ req'[r].status = 404]_vars

\* the note with this id is not there, or it is private and u is not its owner
Hidden(id, u) == \A n \in notes : n.id = id => (~n.is_public /\ n.user_id /= u)

NotFoundJson == ErrorJson("Note not found")

\* C11: a fetch of a private note by a requester who is not its owner answers
\* 404 with the body { error: 'Note not found' }, the very response a fetch of
\* an id that does not exist gets: nothing of the note is in it.
C11_PrivateNoteHidden ==
    [][\A r \in Slots :
         ( /\ req[r].kind = "get" /\ req[r].pc = "get_note"
           /\ Hidden(req[r].noteId, req[r].user) /\ req'[r] /= req[r] )
         => /\ req'[r].pc = "done" /\ req'[r].status = 404
            /\ req'[r].json = NotFoundJson]_vars

\* a fetch answered 404 / 'Note not found' although the note exists (it is
\* private, so the requester was not its owner)
C11_Witness ==
    \E r \in Slots :
        /\ req[r].pc = "done" /\ req[r].kind = "get" /\ req[r].status = 404
        /\ req[r].json = NotFoundJson
        /\ \E n \in notes : n.id = req[r].noteId /\ ~n.is_public

\* the files the attachment rows of note id name
NoteBlobs(id) == {filePathOf(a.file_path) : a \in {b \in atts : b.note_id = id}}

\* C12: an update or a delete of a note by a requester who does not own it
\* answers 404 / 'Note not found' as for a missing id, whether the note is
\* public or not; the note row, the attachment rows and the files they name
\* stay as they were before the request, and no file uploaded with the request
\* is left.
C12_NonOwnerNotFound ==
    [][\A r \in Slots :
         ( /\ req[r].kind \in {"update", "delete"} /\ req[r].pc = "check"
           /\ \E n \in notes : n.id = req[r].noteId /\ n.user_id /= req[r].user
           /\ req'[r] /= req[r] )
         => /\ req'[r].pc = "done" /\ req'[r].status = 404
            /\ req'[r].json = NotFoundJson
            /\ notes' = notes /\ atts' = atts
            /\ \A p \in NoteBlobs(req[r].noteId) :
                 p \in req[r].diskBefore => p \in disk'
            /\ BlobsOf(req[r]) \cap disk' = {}]_vars

\* the attachment rows of note id
NoteRows(id) == {a \in atts : a.note_id = id}

\* C13: a step of a request whose requester is not the owner of a note leaves
\* the note row, the note's attachment rows and the files they name as they
\* are (a request is taken from the step after its arrival on, where the
\* requester is known).
C13_OnlyOwnerChanges ==
    [][\A r \in Slots : \A n \in notes :
         ( /\ req[r].pc \notin {"idle", "done"} /\ req'[r] /= req[r]
           /\ req[r].user /= n.user_id )
         => /\ n \in notes'
            /\ {a \in atts' : a.note_id = n.id} = NoteRows(n.id)
            /\ \A p \in NoteBlobs(n.id) : p \in disk => p \in disk']_vars

\* C14: while a create or update whose title or content fails the validation
\* is being handled, no file of the request is in the attachment directory.
C14_NoWriteBeforeValidation ==
    \A r \in Slots :
        (req[r].pc = "validate" /\ validate(req[r].body) /= "ok")
        => BlobsOf(req[r]) \cap disk = {}

\* C15: when a create or update is answered 400 for its title or content, the
\* attachment directory holds exactly the files it held before the request,
\* and the notes and attachment tables are as they were.
C15_ValidationLeavesNothing ==
    [][\A r \in Slots :
         ( /\ req[r].pc = "validate" /\ validate(req[r].body) /= "ok"
           /\ req'[r] /= req[r] )
         => /\ req'[r].pc = "done" /\ req'[r].status = 400
            /\ {p \in disk' : InAttachmentsDir(p)}
                 = {p \in req[r].diskBefore : InAttachmentsDir(p)}
            /\ notes' = notes /\ atts' = req[r].attsBefore /\ atts' = atts]_vars

\* the extension of a file name: what follows its last '.'
ExtensionOf(name) ==
    IF LastIndexOf(name, DOT) = 0 THEN <<>>
    ELSE SubSeq(name, LastIndexOf(name, DOT) + 1, Len(name))

\* extension and declared MIME type are both in the whitelist
Whitelisted(part) ==
    /\ \E w \in allowedExtensionWords : ExtensionOf(part.originalname) = <<w>>
    /\ part.mimetype \in allowedMimeTypes

WithinLimits(parts) ==
    /\ Len(parts) <= MaxUploadFiles
    /\ \A i \in DOMAIN parts : parts[i].size <= MaxFileSize

\* C16: the upload of a create or an update, its parts within the size and
\* count limits, is accepted if and only if every part has both its extension
\* and its declared MIME type in the whitelist.
C16_AcceptedIffWhitelisted ==
    [][\A r \in Slots :
         (req[r].pc = "upload" /\ requireAuth(req[r]) /\ WithinLimits(req[r].parts))
         => /\ (\A i \in DOMAIN req[r].parts : Whitelisted(req[r].parts[i]))
                 => req'[r].pc = "validate" /\ Len(req'[r].files) = Len(req[r].parts)
            /\ (\E i \in DOMAIN req[r].parts : ~Whitelisted(req[r].parts[i]))
                 => req'[r].pc = "done" /\ req'[r].status = 400]_vars

FileTypeError ==
    ErrorJson("File type not allowed. Only images, PDFs, text files, and office documents are permitted.")

\* an update was refused for the type of a file
C16_Witness ==
    \E r \in Slots :
        /\ req[r].pc = "done" /\ req[r].kind = "update" /\ req[r].status = 400
        /\ req[r].json = FileTypeError

\* C17: when a part of the upload is of a type that is not allowed, is over
\* the size limit, or is the eleventh, the request is answered 400 before the
\* note handler runs: no row is created or changed and none of the request's
\* files is on disk.
C17_RejectedBatchLeavesNothing ==
    [][\A r \in Slots :
         ( /\ req[r].pc = "upload" /\ requireAuth(req[r])
           /\ \/ ~WithinLimits(req[r].parts)
              \/ \E i \in DOMAIN req[r].parts : ~Whitelisted(req[r].parts[i]) )
         => /\ req'[r].pc = "done" /\ req'[r].status = 400
            /\ notes' = notes /\ atts' = atts
            /\ \A i \in DOMAIN req[r].parts :
                 storedFile(req[r].parts[i], now, i).path \notin disk']_vars

\* a request with more than limits.files parts was refused and the attachment
\* directory is empty
C17_Witness ==
    \E r \in Slots :
        /\ req[r].pc = "done" /\ req[r].status = 400
        /\ req[r].json = ErrorJson("Too many files. Maximum is 10 files.")
        /\ AttachmentBlobs = {}

\* C18: no note has more than 10 attachment rows.
C18_AtMostTenAttachments ==
    \A n \in notes : Cardinality(NoteRows(n.id)) <= MaxUploadFiles

\* C19: when an update with k files answers 200, every attachment row and
\* every file that existed before the request is still there, and exactly k
\* rows, all of the note, and exactly k files have been added.
C19_UpdateOnlyAdds ==
    [][\A r \in Slots :
         ( /\ req[r].kind = "update" /\ req[r].pc \in {"update", "insert_att"}
           /\ req'[r].pc = "done" /\ req'[r].status = 200 )
         => LET k == Len(req[r].files)
                old == req[r].attsBefore
                oldDisk == req[r].diskBefore
            IN  /\ old \subseteq atts'
                /\ Cardinality(atts' \ old) = k
                /\ \A a \in atts' \ old : a.note_id = req[r].noteId
                /\ oldDisk \subseteq disk'
                /\ Cardinality(disk' \ oldDisk) = k]_vars

\* C20: the user_id of a note row is the requester of the create that
\* inserted it, under an id no row had before, and no step changes it.
C20_OwnerImmutable ==
    [][/\ \A n \in notes : \A m \in notes' : m.id = n.id => m.user_id = n.user_id
       /\ \A m \in notes' :
            (\A n \in notes : n.id /= m.id)
            => /\ m.id = nextNoteId /\ nextNoteId' > nextNoteId
               /\ \E r \in Slots : /\ req[r].kind = "create" /\ req[r].pc = "insert_note"
                                   /\ m.user_id = req[r].user]_vars

\* the second user owns a note that an update has changed
C20_Witness ==
    \E r \in Slots :
        /\ req[r].pc = "done" /\ req[r].kind = "update" /\ req[r].status = 200
        /\ \E n \in notes : n.id = req[r].noteId /\ n.user_id = 2
\* C21: every note row has a title and a content that are non-empty after
\* trimming, a title of at most 255 characters and a content of at most
\* 1,000,000 characters, whatever title and content a create or an update
\* was sent.
C21_NoteRowsValid ==
    \A n \in notes :
        /\ trim(n.title) /= <<>> /\ length(n.title) <= MaxTitleLen
        /\ trim(n.content) /= <<>> /\ length(n.content) <= MaxContentLen

\* an update has stored a title of exactly 255 characters
C21_Witness ==
    \E r \in Slots, n \in notes :
        /\ req[r].pc = "done" /\ req[r].kind = "update" /\ req[r].status = 200
        /\ n.id = req[r].noteId /\ length(n.title) = MaxTitleLen

\* the requests of a state that are a kind of request
OfKind(kind) == {r \in Slots : req[r].kind = kind}

\* C22: in every state that two requests (creates, updates, deletes of a note,
\* deletes of an attachment) reach in any interleaving of their steps, every
\* row of note_attachments refers to a row of notes that exists.
C22_AttachmentHasNote ==
    \A a \in atts : \E n \in notes : n.id = a.note_id

\* a delete has removed the note while an update was adding a file to it:
\* the update's INSERT was refused and no row is left
C22_Witness ==
    \E r \in OfKind("delete"), u \in OfKind("update") :
        /\ req[r].pc = "done" /\ req[r].status = 200
        /\ req[u].pc = "done" /\ req[u].status = 500 /\ req[u].nfiles > 0
        /\ faults = MaxFaults - 1
        /\ notes = {} /\ atts = {}

\* C23: every attachment row a create or an update writes has the stored
\* path '/attachments/<stored filename>', and that path resolves to a file
\* directly inside the attachment root, whatever the original filename was
\* (names with '/', '..' and '\' in them included).
C23_StoredPathInRoot ==
    \A a \in atts :
        /\ a.file_path = parsePath(<<SLASH, "attachments", SLASH>> \o a.stored_filename)
        /\ join(publicDir, a.file_path) = attachmentsDir \o <<a.stored_filename>>
        /\ InAttachmentsDir(filePathOf(a.file_path))

\* a row has been written for a file whose name climbs out of its directory
C23_Witness ==
    \E a \in atts :
        /\ StartsWith(a.original_filename, DOTDOT \o <<SLASH>>)
        /\ \E r \in Slots : req[r].pc = "done" /\ req[r].status \in {200, 201}

\* C24: stored filenames are unique: the files multer has stored for the
\* requests in flight (two files of one request, or files of two concurrent
\* requests, with the same original name or not) have pairwise different
\* stored filenames, and no upload is stored over a file that exists.
C24_StoredNamesUnique ==
    [][\A r \in Slots :
         (req[r].pc = "upload" /\ req'[r].pc = "validate")
         => LET files == req'[r].files
            IN  /\ \A i, j \in DOMAIN files : i /= j => files[i].filename /= files[j].filename
                /\ \A i \in DOMAIN files : files[i].path \notin disk
                /\ \A s \in Slots \ {r} : \A i \in DOMAIN files, j \in DOMAIN req[s].files :
                      files[i].filename /= req[s].files[j].filename]_vars

\* the step in which multer has stored the files of request r
Stored(r) == req[r].pc = "upload" /\ req'[r].pc = "validate"

\* 'note-<timestamp>-<random>-'
NamePrefix(ts, rnd) == <<"note", "-", ToString(ts), "-", ToString(rnd), "-">>

\* stored filename fn is 'note-<timestamp>-<random>-<base><ext>' for the
\* extension of the original name nm
NameIs(fn, nm, base) ==
    \E rnd \in 0..(MaxUploadFiles + 1) : fn = NamePrefix(now, rnd) \o base \o extname(nm)

\* C25 as stated: the stored filename is 'note-<timestamp>-<random>-<sanitized
\* base name><ext>', the sanitized base name being the original base name
\* without its characters outside the alphanumeric set.
C25_BaseNameStripped ==
    [][\A r \in Slots : Stored(r) =>
         \A i \in DOMAIN req[r].parts :
            LET nm == req[r].parts[i].originalname
                base == basename(nm, extname(nm))
            IN  NameIs(req'[r].files[i].filename, nm,
                       SelectSeq(base, LAMBDA t : t \in AlnumTokens))]_vars

\* C25, amended: the stored filename is 'note-<timestamp>-<random>-<sanitized
\* base name><ext>', the sanitized base name being the original base name
\* with every character outside the alphanumeric set replaced by '_'.
C25_BaseNameReplaced ==
    [][\A r \in Slots : Stored(r) =>
         \A i \in DOMAIN req[r].parts :
            LET nm == req[r].parts[i].originalname
                base == basename(nm, extname(nm))
            IN  NameIs(req'[r].files[i].filename, nm,
                       [k \in 1..Len(base) |->
                          IF base[k] \in AlnumTokens THEN base[k] ELSE "_"])]_vars

\* a file has been stored whose base name had a character outside the set
C25_Witness ==
    \E r \in Slots :
        /\ req[r].pc = "validate"
        /\ \E i \in DOMAIN req[r].files :
              LET nm == req[r].files[i].originalname
                  base == basename(nm, extname(nm))
              IN  /\ \E k \in DOMAIN base : base[k] \notin AlnumTokens
                  /\ \E k \in DOMAIN req[r].files[i].filename :
                        req[r].files[i].filename[k] = "_"

\* notes is the rows of the notes in want, each once, most recently updated
\* first
ListsExactly(list, want) ==
    /\ {list[i] : i \in DOMAIN list} = {listedRow(n) : n \in want}
    /\ Len(list) = Cardinality(want)
    /\ \A i \in 1..(Len(list) - 1) : list[i].updated_at >= list[i + 1].updated_at

\* C26: the list of own notes holds exactly the notes whose owner is the
\* requester, the list of a user's public notes holds exactly that user's
\* notes that are public, whoever asks, and both come most recently updated
\* first.
C26_ListsExact ==
    [][\A r \in Slots :
         /\ (req[r].pc = "list" /\ req'[r].status = 200)
            => ListsExactly(req'[r].json.notes,
                            {n \in notes : n.user_id = req[r].user})
         /\ (req[r].pc = "list_public" /\ req'[r].status = 200)
            => ListsExactly(req'[r].json.notes,
                            {n \in notes : n.user_id = req[r].targetUserId /\ n.is_public})]_vars

\* a public list of user 1 has been sent that holds the one public note of
\* user 1, who also has a private note
C26_Witness ==
    \E r \in Slots :
        /\ req[r].pc = "done" /\ req[r].kind = "list_public" /\ req[r].status = 200
        /\ Len(req[r].json.notes) = 1
        /\ \E n \in notes : n.user_id = 1 /\ ~n.is_public
        /\ \E n \in notes : n.user_id = 1 /\ n.is_public /\ listedRow(n) = req[r].json.notes[1]

RECURSIVE SumFiles(_)
\* the files multer stored for the requests in R
SumFiles(R) ==
    IF R = {} THEN 0
    ELSE LET r == CHOOSE x \in R : TRUE IN req[r].nfiles + SumFiles(R \ {r})

\* the creates that answered 201
Created == {r \in OfKind("create") : req[r].pc = "done" /\ req[r].status = 201}

\* C27: two concurrent creates are independent. When both have answered:
\* each create that answered 201 has its note, one row per file and the blob
\* of every row, whatever happened to the other; and when no call threw for
\* an outside reason the store holds what the two leave when run one after
\* the other: one more note per 201, and one more row and one more blob per
\* file of a 201.
C27_CreatesIndependent ==
    ( /\ OfKind("create") = Slots
      /\ \A r \in Slots : req[r].pc = "done" )
    => /\ \A r \in Created :
            /\ \E n \in notes : n.id = req[r].noteId
            /\ Cardinality(NoteRows(req[r].noteId)) = req[r].nfiles
            /\ Cardinality(NoteBlobs(req[r].noteId)) = req[r].nfiles
            /\ NoteBlobs(req[r].noteId) \subseteq disk
       /\ faults = MaxFaults - 1
            => /\ Cardinality(notes) = 1 + Cardinality(Created)
               /\ Cardinality(atts) = 1 + SumFiles(Created)
               /\ Cardinality(AttachmentBlobs) = 1 + SumFiles(Created)

\* the error messages the handlers of the notes routes write out themselves
CategoricalErrors ==
    { "Authentication required", "Title and content are required",
      "Title cannot be empty", "Title must be 255 characters or less",
      "Content cannot be empty", "Content is too long (maximum 1MB)",
      "A note with this title already exists", "Invalid user ID", "Invalid note ID",
      "Invalid note or attachment ID",
      "Note not found", "Attachment not found", "Internal server error",
      "File size too large. Maximum size is 50MB.",
      "Too many files. Maximum is 10 files.", "File upload error",
      "File type not allowed. Only images, PDFs, text files, and office documents are permitted." }

\* C28: every error response carries one of the messages the handlers chose;
\* the text of an exception of the database driver or of the upload
\* library is never part of it.
C28_ErrorsCategorical ==
    \A r \in Slots :
        (req[r].pc = "done" /\ req[r].status >= 400)
        => req[r].json.error \in CategoricalErrors

\* C29: an owner's update that adds files runs with a delete of the same
\* note, in any interleaving, and nothing throws for an outside reason. When
\* the update answers 200, each of its files has its row; and once both have
\* answered and the note row is gone, no blob the update uploaded is left in
\* the attachment directory.
C29_UpdateDeleteRace ==
    [][\A u \in OfKind("update"), d \in OfKind("delete") :
         /\ ( /\ req[u].pc = "insert_att" /\ req'[u].pc = "done" /\ req'[u].status = 200 )
            => \A i \in DOMAIN req[u].files :
                 \E a \in atts' : /\ a.note_id = req[u].noteId
                                   /\ a.stored_filename = req[u].files[i].filename
         /\ ( /\ req'[u].pc = "done" /\ req'[u].nfiles > 0
              /\ req'[d].pc = "done"
              /\ \A n \in notes' : n.id /= req'[d].noteId
              /\ faults' = MaxFaults - 1 )
            => AttachmentBlobs' \ {FirstFile.path} = {}]_vars

\* both requests are of this kind, both have answered, and no call threw for
\* an outside reason
BothAnswered(kind) ==
    /\ OfKind(kind) = Slots
    /\ \A r \in Slots : req[r].pc = "done"
    /\ faults = MaxFaults - 1

\* C30: the owner's two concurrent deletes of the same note, or of the same
\* attachment, have answered: one with 200 and the other with 404, neither
\* with 500, and the store is as one delete leaves it (the note, its rows
\* and its blobs are gone; for the attachment, its row and its blob).
C30_ConcurrentDeletes ==
    /\ BothAnswered("delete")
       => /\ {req[r].status : r \in Slots} = {200, 404}
          /\ notes = {} /\ atts = {} /\ AttachmentBlobs = {}
    /\ BothAnswered("delete_att")
       => /\ {req[r].status : r \in Slots} = {200, 404}
          /\ notes = {FirstNote} /\ atts = {} /\ AttachmentBlobs = {}

\* C31: an update of note 1 runs next to a create. When the update answers
\* 500 after one of its attachment INSERTs failed (its UPDATE has run), the
\* note's title, content, is_public and updated_at and its attachment rows
\* are what they were before the request.
C31_UpdateAtomicOnFailure ==
    [][\A u \in OfKind("update"), c \in OfKind("create") :
         ( /\ req[u].pc = "insert_att"
           /\ req'[u].pc = "done" /\ req'[u].status = 500 )
         => /\ FirstNote \in notes'
            /\ {a \in atts' : a.note_id = req[u].noteId} = {FirstAttachment}]_vars

\* the attachment delete r may remove: the attachment of its attachment id,
\* when it belongs to the note of its note id and the requester owns that note
Removable(r) ==
    {a \in atts : /\ a.id = req[r].attId /\ a.note_id = req[r].noteId
                  /\ \E n \in notes : n.id = a.note_id /\ n.user_id = req[r].user}

\* request r pairs a note of the requester with an attachment of another note
Mispaired(r) ==
    /\ req[r].kind = "delete_att" /\ req[r].pc \in {"check", "select_att", "delete_row"}
    /\ \E n \in notes : n.id = req[r].noteId /\ n.user_id = req[r].user
    /\ \E a \in atts : a.id = req[r].attId /\ a.note_id /= req[r].noteId

\* C32: a step of an attachment delete removes no row and no file but the
\* attachment of the request and its blob, and only when the requester owns
\* the note of the request and the attachment belongs to that note; a
\* request that pairs an owned note with an attachment of another note
\* changes nothing and, when no query throws, answers 404.
C32_DeleteOnlyOwnAttachment ==
    [][\A r \in Slots :
         req[r].kind = "delete_att" =>
           /\ atts \ atts' \subseteq Removable(r)
           /\ disk \ disk' \subseteq {filePathOf(a.file_path) : a \in Removable(r)}
           /\ Mispaired(r) =>
                /\ atts' = atts /\ disk' = disk
                /\ req'[r].pc = "done" => req'[r].status \in {404, 500}
                /\ (req'[r].pc = "done" /\ ~req'[r].queryFailed) => req'[r].status = 404]_vars

\* user 1 has asked to delete attachment 2 under note 1 and got 'Attachment
\* not found'; both attachments are still there
C32_Witness ==
    \E r \in Slots :
        /\ req[r].pc = "done" /\ req[r].kind = "delete_att" /\ req[r].noteId = 1
        /\ req[r].status = 404 /\ req[r].json = ErrorJson("Attachment not found")
        /\ atts = {FirstAttachment, attachmentRow(2, 2, SecondFile)}
        /\ {FirstFile.path, SecondFile.path} \subseteq disk

\* C33: when a create answers 201 or an update answers 200, the note is
\* public exactly when the request's is_public was true or 'true'; and the
\* UPDATE of a request without is_public makes a public note private.
C33_PublicIffSupplied ==
    [][\A r \in Slots :
         /\ ( /\ req[r].pc \in {"insert_note", "update", "insert_att"}
              /\ req'[r].pc = "done" /\ req'[r].status \in {200, 201} )
            => \A n \in notes' :
                 n.id = req'[r].noteId
                 => (n.is_public <=> req[r].body.is_public \in {"str:true", "bool:true"})
         /\ ( /\ req[r].pc = "update" /\ req'[r].pc /= "update" /\ ~req'[r].queryFailed
              /\ req[r].body.is_public = "undefined" )
            => \A n \in notes' :
                 (n.id = req[r].noteId /\ n.user_id = req[r].user) => ~n.is_public]_vars

\* an update has answered 200 and the note is private
C33_Witness ==
    \E r \in Slots, n \in notes :
        /\ req[r].pc = "done" /\ req[r].kind = "update" /\ req[r].status = 200
        /\ n.id = req[r].noteId /\ ~n.is_public

\* C34: no handler of a notes endpoint runs for a request without a user id
\* in its session (only a received request whose middleware has not run yet
\* can be without one), and the step that answers 401 writes no file and
\* changes no row.
C34_Unauthenticated401 ==
    [][\A r \in Slots :
         /\ req'[r].pc \notin {"idle", "done", "upload"} => req'[r].user /= NoUser
         /\ (req'[r] /= req[r] /\ req'[r].pc = "done" /\ req'[r].status = 401)
            => /\ req'[r].json = ErrorJson("Authentication required")
               /\ req'[r].nfiles = 0
               /\ UNCHANGED <<notes, atts, nextNoteId, nextAttId, disk>>]_vars

\* an update without a session has answered 401 while a note with an
\* attachment exists
C34_Witness ==
    \E r \in Slots :
        /\ req[r].pc = "done" /\ req[r].status = 401 /\ req[r].kind = "update"
        /\ notes /= {} /\ atts /= {}

\* C35: no two rows of users have the same username, whether registrations
\* of a username run one after the other or together; and a registration
\* that does not answer 201 changes no session.
C35_UsernamesUnique ==
    [][/\ \A u, v \in users' : u.username = v.username => u = v
       /\ \A r \in Slots :
            ( /\ req[r].kind = "register" /\ req[r].pc \notin {"idle", "done"}
              /\ req'[r].pc = "done" /\ req'[r].status /= 201 )
            => sessions' = sessions]_vars

\* two registrations of the same new username have passed the existence
\* check together: one answered 201, the other 500, and one row was added
C35_Witness ==
    /\ \A r \in Slots : req[r].pc = "done" /\ req[r].kind = "register"
    /\ {req[r].status : r \in Slots} = {201, 500}
    /\ Cardinality(users) = Cardinality(RegisteredUsers) + 1
    /\ Cardinality({s \in SessionIds : sessions[s] /= NoUser}) = 1

\* a request of slot r returns in this step
Returns(r) == req[r].pc /= "done" /\ req'[r].pc = "done"

\* C36: a session gets a user id only in the step in which a registration
\* answers 201 or a login answers 200 on it, so a failed login or a rejected
\* registration never sets it; a logout leaves its session without a user
\* id; and a request for the notes on a session without a user id (as it is
\* from a logout until the next successful register or login) gets 401.
C36_SessionOnlyAfterAuth ==
    [][/\ \A s \in SessionIds :
            (sessions'[s] /= sessions[s] /\ sessions'[s] /= NoUser)
            => \E r \in Slots :
                 /\ Returns(r) /\ req[r].session = s
                 /\ \/ req[r].kind = "register" /\ req'[r].status = 201
                    \/ req[r].kind = "login" /\ req'[r].status = 200
       /\ \A r \in Slots :
            /\ ( /\ Returns(r) /\ req'[r].kind \in {"register", "login"}
                 /\ req'[r].status \notin {200, 201} )
               => sessions' = sessions
            /\ (Returns(r) /\ req'[r].kind = "logout")
               => sessions'[req'[r].session] = NoUser
            /\ ( /\ CanStart(r) /\ req'[r] /= req[r] /\ req'[r].kind = "list"
                 /\ sessions[req'[r].session] = NoUser )
               => req'[r].pc = "done" /\ req'[r].status = 401]_vars

\* a session that a login had given a user id has been logged out, and a
\* request for the notes on it has then been answered 401
C36_Witness ==
    \E r \in Slots, s \in SessionIds :
       /\ req[r].pc = "done" /\ req[r].kind = "list" /\ req[r].status = 401
       /\ req[r].session = s /\ sessions[s] = NoUser
       /\ \E q \in Slots \ {r} :
            /\ req[q].pc = "done" /\ req[q].kind = "logout"
            /\ req[q].session = s /\ req[q].user /= NoUser

\* the file a stored avatar_path names
AvatarNamed(avatar_path) == filePathOf(avatar_path)

\* C37: when a profile update is rejected with 400 or 500 by its handler, the
\* user's row is what it was, the avatar file the row names is still there
\* if it was there when the request arrived, and no file has been added;
\* and when a profile update returns, every avatar_path that is not null
\* names a file that exists.
C37_RejectedProfileUpdateHarmless ==
    [][\A r \in Slots :
         ( /\ req[r].kind = "profile" /\ req[r].pc \in {"prof_select", "prof_update"}
           /\ req'[r].pc = "done" )
         => /\ req'[r].status \in {400, 500}
               => /\ users' = users
                  /\ \A u \in users :
                       ( /\ u.id = req[r].user /\ u.avatar_path /= NoPath
                         /\ AvatarNamed(u.avatar_path) \in req[r].diskBefore )
                       => AvatarNamed(u.avatar_path) \in disk'
                  /\ disk' \subseteq req[r].diskBefore
            /\ \A u \in users' :
                 u.avatar_path /= NoPath => AvatarNamed(u.avatar_path) \in disk']_vars

====
